---- MODULE Spec2Model ----
(***************************************************************************)
(* Model of the OPRO workspace: the session store (sessionStorage.ts), the *)
(* workspace controller (OPROWorkspace) with its asynchronous handlers and *)
(* pacing timers, and the external generation / scoring calls seen as      *)
(* operations in flight.                                                   *)
(*                                                                         *)
(* JavaScript objects are modelled by a heap: a handler closure keeps the  *)
(* session object of the render it was created in, and the store functions *)
(* mutate that object in place before serialising it into the store.       *)
(* Scores are kept in hundredths of a percent (87.02 is 8702).             *)
(***************************************************************************)
EXTENDS Integers, Sequences, FiniteSets, Bags, TLC

SessionIds == {"A", "B"}

\* config.k of every session of the model
K == 2
\* config.topX of every session of the model
TopX == 2
\* no session is advanced past this step number, and the generation call
\* for a step of this number is left in flight
MaxStep == 3
\* operations (external calls and pacing timers) outstanding at once
MaxOps == 2
\* user and parent actions (clicks, mounts, switches, deletions) per run
MaxEvents == 3
\* heap slots: one per outstanding closure, the rendered object, and the
\* copies a single handler run allocates
MaxObj == MaxOps + 4
\* accuracies a scoring call may return
Accuracies == {0, 10000}
\* the text every generation call returns
Texts == {"t"}

NoScore == -1
NoPrompt == 0
NoObj == 0

Null == [id |-> "none", currentStep |-> 0, steps |-> <<>>]

VARIABLES
  store,            \* localStorage "opro_sessions": session id -> session
  created,          \* ids handed out by createSession
  heap,             \* session objects held by renders and closures
  nextId,           \* generateId: next fresh prompt id
  mounted,          \* an OPROWorkspace instance is mounted
  activeSessionIdRef,
  view,             \* React state `session`: a heap object
  renderStep,       \* stepNumber of `currentStep` as of the last render
  isGenerating,
  isScoringAll,
  scoringPromptId,
  fullyAutomatic,   \* automationOptions.fullyAutomatic
  testData,         \* testData.length > 0
  ops,              \* bag of outstanding external calls and pacing timers
  events,           \* user and parent actions taken so far
  last              \* what the last step did (observation only)

vars == <<store, created, heap, nextId, mounted, activeSessionIdRef, view,
          renderStep, isGenerating, isScoringAll, scoringPromptId,
          fullyAutomatic, testData, ops, events, last>>

----------------------------------------------------------------------------
(* Data model and the store functions of sessionStorage.ts                 *)

NewPrompt(id, text, score, state) ==
  [id |-> id, text |-> text, score |-> score, state |-> state]

\* index of the first element of seq that satisfies P, 0 when none does
FirstIdx(seq, P(_)) ==
  IF \E i \in DOMAIN seq : P(seq[i])
  THEN CHOOSE i \in DOMAIN seq : P(seq[i]) /\ \A j \in 1..(i - 1) : ~P(seq[j])
  ELSE 0

\* a load that returns the prompt as persisted
ResetPromptKeep(p) == p

ResetPrompt(p) ==
  IF p.state = "scoring" THEN [p EXCEPT !.state = "pending"] ELSE p

ResetSession(s) ==
  [s EXCEPT !.steps =
     [i \in DOMAIN s.steps |->
        [s.steps[i] EXCEPT !.prompts =
           [j \in DOMAIN s.steps[i].prompts |-> ResetPrompt(s.steps[i].prompts[j])]]]]

\* getAllSessions: parse the store and reset every 'scoring' prompt
getAllSessions(st) == [s \in SessionIds |-> ResetSession(st[s])]

getSession(st, sid) == getAllSessions(st)[sid]

StepIdx(sess, n) ==
  LET Is(s) == s.stepNumber = n IN FirstIdx(sess.steps, Is)

\* getCurrentStep, as an index into steps (0 stands for null)
getCurrentStep(sess) == StepIdx(sess, sess.currentStep)

\* Object.assign(prompt, updates)
Assign(p, updates) ==
  [f \in DOMAIN p |-> IF f \in DOMAIN updates THEN updates[f] ELSE p[f]]

HasPrompt(step, pid) == \E j \in DOMAIN step.prompts : step.prompts[j].id = pid

PromptStepIdx(sess, pid) ==
  LET Has(s) == HasPrompt(s, pid) IN FirstIdx(sess.steps, Has)

PromptIdx(step, pid) ==
  LET Is(p) == p.id = pid IN FirstIdx(step.prompts, Is)

----------------------------------------------------------------------------
(* Selector: the candidate list createNextStep renders into the metaPrompt *)

RECURSIVE Flatten(_)
Flatten(steps) ==
  IF steps = <<>> THEN <<>>
  ELSE Head(steps).prompts \o Flatten(Tail(steps))

allScoredPrompts(sess) ==
  SelectSeq(Flatten(sess.steps), LAMBDA p : p.score # NoScore)

\* (prompt.score || 0)
ScoreOrZero(p) == IF p.score = NoScore THEN 0 ELSE p.score

\* a Map that is set for every prompt, whatever the score it already holds
RECURSIVE uniquePromptsLast(_, _)
uniquePromptsLast(acc, rest) ==
  IF rest = <<>> THEN acc
  ELSE LET p == Head(rest)
           Same(q) == q.text = p.text
           at == FirstIdx(acc, Same)
       IN IF at = 0 THEN uniquePromptsLast(Append(acc, p), Tail(rest))
          ELSE uniquePromptsLast([acc EXCEPT ![at] = p], Tail(rest))

\* the Map of text -> prompt, kept as a sequence in insertion order of the keys
RECURSIVE uniquePrompts(_, _)
uniquePrompts(acc, rest) ==
  IF rest = <<>> THEN acc
  ELSE LET p == Head(rest)
           Same(q) == q.text = p.text
           at == FirstIdx(acc, Same)
       IN IF at = 0 THEN uniquePrompts(Append(acc, p), Tail(rest))
          ELSE IF ScoreOrZero(p) > ScoreOrZero(acc[at])
               THEN uniquePrompts([acc EXCEPT ![at] = p], Tail(rest))
               ELSE uniquePrompts(acc, Tail(rest))

\* stable insertion of p into a sequence sorted by score descending
RECURSIVE InsertDesc(_, _)
InsertDesc(sorted, p) ==
  IF sorted = <<>> THEN <<p>>
  ELSE IF ScoreOrZero(Head(sorted)) >= ScoreOrZero(p)
       THEN <<Head(sorted)>> \o InsertDesc(Tail(sorted), p)
       ELSE <<p>> \o sorted

RECURSIVE SortDesc(_)
SortDesc(seq) ==
  IF seq = <<>> THEN <<>>
  ELSE InsertDesc(SortDesc(SubSeq(seq, 1, Len(seq) - 1)), seq[Len(seq)])

\* the list left in descending order
ReverseNot(seq) == seq

Reverse(seq) == [i \in 1..Len(seq) |-> seq[Len(seq) + 1 - i]]

Slice(seq, n) == SubSeq(seq, 1, IF n < Len(seq) THEN n ELSE Len(seq))

topPrompts(sess, topX) ==
  Reverse(Slice(SortDesc(uniquePrompts(<<>>, allScoredPrompts(sess))), topX))

\* the text:/score: blocks of a rendered meta-prompt
Blocks(prompts) == [i \in DOMAIN prompts |-> <<prompts[i].text, prompts[i].score>>]

----------------------------------------------------------------------------
(* A handler run works on a machine record m: the store, the heap and the  *)
(* controller state it may change; m.err is a thrown exception.            *)

Machine ==
  [store |-> store, heap |-> heap, nextId |-> nextId, view |-> view,
   isGenerating |-> isGenerating, isScoringAll |-> isScoringAll,
   scoringPromptId |-> scoringPromptId, ops |-> ops, err |-> FALSE]

\* createInitialMetaPrompt: every step 0 prompt, in the given order
createInitialMetaPrompt(step0Prompts) ==
  [template |-> "initial", blocks |-> Blocks(step0Prompts)]

\* createSession: the session object it builds (ids id0, id0+1, id0+2)
createSession(sid, id0) ==
  LET step0Prompts ==
        << NewPrompt(id0, "Let's solve the problem.", 8702, "scored"),
           NewPrompt(id0 + 1, "Let's figure it out!", 8931, "scored"),
           NewPrompt(id0 + 2, "Let's think step by step.", 9008, "scored") >>
  IN [id |-> sid,
      currentStep |-> 1,
      steps |-> << [stepNumber |-> 0, prompts |-> step0Prompts,
                    metaPrompt |-> [template |-> "none", blocks |-> <<>>]],
                   [stepNumber |-> 1, prompts |-> <<>>,
                    metaPrompt |-> createInitialMetaPrompt(step0Prompts)] >>]

\* an updateSession that inserts the object when its id is not in the store
updateSessionUpsert(m, o) ==
  [m EXCEPT !.store = [getAllSessions(m.store) EXCEPT ![m.heap[o].id] = m.heap[o]]]

\* updateSession(session): throws when the id is not in the store, else
\* replaces the stored entry by the object and saves the (reset) list
updateSession(m, o) ==
  LET sessions == getAllSessions(m.store)
      sid == m.heap[o].id
  IN IF sessions[sid] = Null
     THEN [m EXCEPT !.err = TRUE]
     ELSE [m EXCEPT !.store = [sessions EXCEPT ![sid] = m.heap[o]]]

\* addPromptsToStep that drops the last text it is given
addPromptsToStepShort(m, o, stepNumber, promptTexts) ==
  LET sess == m.heap[o]
      at == StepIdx(sess, stepNumber)
      kept == SubSeq(promptTexts, 1, Len(promptTexts) - 1)
      newPrompts == [i \in 1..Len(kept) |->
                       NewPrompt(m.nextId + i - 1, kept[i], NoScore, "pending")]
  IN IF at = 0
     THEN [m EXCEPT !.err = TRUE]
     ELSE updateSession(
            [m EXCEPT !.heap[o].steps[at].prompts = @ \o newPrompts,
                      !.nextId = @ + Len(promptTexts)], o)

\* addPromptsToStep(session, stepNumber, promptTexts)
addPromptsToStep(m, o, stepNumber, promptTexts) ==
  LET sess == m.heap[o]
      at == StepIdx(sess, stepNumber)
      newPrompts == [i \in 1..Len(promptTexts) |->
                       NewPrompt(m.nextId + i - 1, promptTexts[i], NoScore, "pending")]
  IN IF at = 0
     THEN [m EXCEPT !.err = TRUE]
     ELSE updateSession(
            [m EXCEPT !.heap[o].steps[at].prompts = @ \o newPrompts,
                      !.nextId = @ + Len(promptTexts)], o)

\* updatePrompt(session, promptId, updates)
updatePrompt(m, o, pid, updates) ==
  LET sess == m.heap[o]
      at == PromptStepIdx(sess, pid)
  IN IF at = 0
     THEN [m EXCEPT !.err = TRUE]
     ELSE LET j == PromptIdx(sess.steps[at], pid)
          IN updateSession(
               [m EXCEPT !.heap[o].steps[at].prompts[j] = Assign(@, updates)], o)

\* createNextStep that appends the step and leaves currentStep as it was
createNextStepKeepCurrent(m, o) ==
  LET sess == m.heap[o]
  IN IF getCurrentStep(sess) = 0
     THEN [m EXCEPT !.err = TRUE]
     ELSE LET newStep == [stepNumber |-> sess.currentStep + 1,
                          prompts |-> <<>>,
                          metaPrompt |-> [template |-> "next",
                                          blocks |-> Blocks(topPrompts(sess, TopX))]]
          IN updateSession([m EXCEPT !.heap[o].steps = Append(@, newStep)], o)

\* createNextStep(session)
createNextStep(m, o) ==
  LET sess == m.heap[o]
  IN IF getCurrentStep(sess) = 0
     THEN [m EXCEPT !.err = TRUE]
     ELSE LET newStep == [stepNumber |-> sess.currentStep + 1,
                          prompts |-> <<>>,
                          metaPrompt |-> [template |-> "next",
                                          blocks |-> Blocks(topPrompts(sess, TopX))]]
          IN updateSession(
               [m EXCEPT !.heap[o].steps = Append(@, newStep),
                         !.heap[o].currentStep = newStep.stepNumber], o)

----------------------------------------------------------------------------
(* The controller (OPROWorkspace).  A closure c carries what a handler of  *)
(* one render sees: c.obj the session object, c.step the stepNumber of the *)
(* currentStep object of that render, c.auto and c.test the captured       *)
(* automationOptions.fullyAutomatic and testData.length > 0.  c.ref is     *)
(* "live" for the mounted instance, else the value its instance's          *)
(* activeSessionIdRef had when it was unmounted.  c.fresh records that the *)
(* chain the closure belongs to started in the current activation, and     *)
(* c.chain that the handler was called by a pacing timer.                  *)

Closure == [obj |-> view, step |-> renderStep, auto |-> fullyAutomatic,
            test |-> testData, ref |-> "live", fresh |-> TRUE, chain |-> FALSE]

NewOp(kind, c, pid, rest, all, tgt) ==
  [kind |-> kind, obj |-> c.obj, step |-> c.step, auto |-> c.auto,
   test |-> c.test, ref |-> c.ref, fresh |-> c.fresh, chain |-> c.chain,
   pid |-> pid, rest |-> rest, all |-> all, tgt |-> tgt]

ActiveRef(c) == IF c.ref = "live" THEN activeSessionIdRef ELSE c.ref

\* a pacing timer scheduled by a handler of closure c
Timer(kind, c, pid) ==
  NewOp(kind, [c EXCEPT !.chain = TRUE], pid, <<>>, FALSE, 0)

\* a handler that never compares activeSessionIdRef with its session id
StaleNever(m, c) == FALSE

\* activeSessionIdRef.current !== currentSessionId
Stale(m, c) == ActiveRef(c) # m.heap[c.obj].id

Live(c) == c.ref = "live"

Schedule(m, op) == [m EXCEPT !.ops = @ (+) SetToBag({op})]

FreeObj(m) ==
  CHOOSE o \in 1..MaxObj :
    m.heap[o] = Null /\ \A q \in 1..(o - 1) : m.heap[q] # Null

\* setSession(value) with a freshly parsed object
SetSessionNew(m, c, sess) ==
  IF Live(c)
  THEN LET o == FreeObj(m) IN [m EXCEPT !.heap[o] = sess, !.view = o]
  ELSE m

\* refreshSession
refreshSession(m, c) ==
  LET updated == getSession(m.store, m.heap[c.obj].id)
  IN IF updated # Null THEN SetSessionNew(m, c, updated) ELSE m

setIsGenerating(m, c, b) == IF Live(c) THEN [m EXCEPT !.isGenerating = b] ELSE m
setIsScoringAll(m, c, b) == IF Live(c) THEN [m EXCEPT !.isScoringAll = b] ELSE m
setScoringPromptId(m, c, p) == IF Live(c) THEN [m EXCEPT !.scoringPromptId = p] ELSE m

IsPending(p) == p.state = "pending"
IsScored(p) == p.state = "scored"

AllScored(step) == \A j \in DOMAIN step.prompts : IsScored(step.prompts[j])

\* the automation block after a generation: schedule scoring of the first
\* pending prompt of the stored current step
AutoAfterGenerate(m, c) ==
  LET updatedSession == getSession(m.store, m.heap[c.obj].id)
      at == getCurrentStep(updatedSession)
  IN IF c.auto /\ updatedSession # Null /\ ~Stale(m, c) /\ at # 0
     THEN LET prompts == updatedSession.steps[at].prompts
              first == FirstIdx(prompts, IsPending)
          IN IF first # 0
             THEN Schedule(m, Timer("timerScore", c, prompts[first].id))
             ELSE m
     ELSE m

\* an automation block after a scoring that schedules nothing
AutoAfterScoreNone(m, c) == m

\* the automation block after a scoring: next pending prompt, else next step
AutoAfterScore(m, c) ==
  LET updatedSession == getSession(m.store, m.heap[c.obj].id)
      at == getCurrentStep(updatedSession)
  IN IF c.auto /\ ~Stale(m, c) /\ updatedSession # Null /\ at # 0
     THEN LET prompts == updatedSession.steps[at].prompts
              next == FirstIdx(prompts, IsPending)
          IN IF next # 0
             THEN Schedule(m, Timer("timerScore", c, prompts[next].id))
             ELSE Schedule(m, Timer("timerNext", c, NoPrompt))
     ELSE m

\* the catch block of handleScorePrompt followed by its finally
ScoreCatch(m, c, pid) ==
  LET m1 == updatePrompt([m EXCEPT !.err = FALSE], c.obj, pid, [state |-> "pending"])
  IN IF m1.err
     THEN setScoringPromptId(m1, c, NoPrompt)
     ELSE setScoringPromptId(refreshSession(m1, c), c, NoPrompt)

\* handleScorePrompt without its test of testData.length
ScoreBeginUnguarded(m, c, pid, rest, all) ==
  LET m1 == setScoringPromptId(m, c, pid)
  IN IF Stale(m1, c) THEN setScoringPromptId(m1, c, NoPrompt)
     ELSE LET m2 == updatePrompt(m1, c.obj, pid, [state |-> "scoring"])
          IN IF m2.err THEN ScoreCatch(m2, c, pid)
             ELSE Schedule(refreshSession(m2, c),
                           NewOp("score", c, pid, rest, all, 0))

\* handleScorePrompt(prompt) up to its await of scorePrompt
ScoreBegin(m, c, pid, rest, all) ==
  IF ~c.test THEN m
  ELSE LET m1 == setScoringPromptId(m, c, pid)
       IN IF Stale(m1, c) THEN setScoringPromptId(m1, c, NoPrompt)
          ELSE LET m2 == updatePrompt(m1, c.obj, pid, [state |-> "scoring"])
               IN IF m2.err THEN ScoreCatch(m2, c, pid)
                  ELSE Schedule(refreshSession(m2, c),
                                NewOp("score", c, pid, rest, all, 0))

\* handleScoreAll: the loop after an awaited handleScorePrompt returned
ScoreAllLoop(m, c, rest) ==
  IF m.err THEN m
  ELSE IF rest = <<>> \/ Stale(m, c) THEN setIsScoringAll(m, c, FALSE)
  ELSE ScoreBegin(m, c, Head(rest), Tail(rest), TRUE)

\* handleScorePrompt(prompt) from the return of scorePrompt on
ScoreEnd(m, c, pid, accuracy, rest, all) ==
  LET done ==
        IF Stale(m, c) THEN setScoringPromptId(m, c, NoPrompt)
        ELSE LET m1 == updatePrompt(m, c.obj, pid,
                                    [state |-> "scored", score |-> accuracy])
             IN IF m1.err THEN ScoreCatch(m1, c, pid)
                ELSE setScoringPromptId(
                       AutoAfterScore(refreshSession(m1, c), c), c, NoPrompt)
  IN IF all THEN ScoreAllLoop(done, c, rest) ELSE done

\* handleGeneratePrompts without its finally block
GenerateEndNoFinally(m, c, ok, prompts) ==
  IF ~ok THEN m
  ELSE IF Stale(m, c) THEN setIsGenerating(m, c, FALSE)
  ELSE LET m1 == addPromptsToStep(m, c.obj, c.step, prompts)
       IN IF m1.err THEN setIsGenerating([m1 EXCEPT !.err = FALSE], c, FALSE)
          ELSE setIsGenerating(AutoAfterGenerate(refreshSession(m1, c), c), c, FALSE)

\* handleGeneratePrompts from the return of generatePrompts on
GenerateEnd(m, c, ok, prompts) ==
  IF ~ok \/ Stale(m, c) THEN setIsGenerating(m, c, FALSE)
  ELSE LET m1 == addPromptsToStep(m, c.obj, c.step, prompts)
       IN IF m1.err THEN setIsGenerating([m1 EXCEPT !.err = FALSE], c, FALSE)
          ELSE setIsGenerating(AutoAfterGenerate(refreshSession(m1, c), c), c, FALSE)

\* handleNextStep up to its await of generatePrompts
NextStepBegin(m, c) ==
  LET at == StepIdx(m.heap[c.obj], c.step)
  IN IF at = 0 THEN m
     ELSE IF ~AllScored(m.heap[c.obj].steps[at]) THEN m
     ELSE LET m1 == createNextStep(m, c.obj)
          IN IF m1.err THEN [m1 EXCEPT !.err = FALSE]
             ELSE IF Stale(m1, c) THEN m1
             ELSE LET m2 == IF Live(c) THEN [m1 EXCEPT !.view = c.obj] ELSE m1
                      new == getCurrentStep(m2.heap[c.obj])
                  IN IF new = 0 THEN m2
                     ELSE Schedule(setIsGenerating(m2, c, TRUE),
                                   NewOp("nextGenerate", c, NoPrompt, <<>>, FALSE,
                                         m2.heap[c.obj].steps[new].stepNumber))

\* handleNextStep from the return of its generatePrompts on
NextStepEnd(m, c, tgt, ok, prompts) ==
  IF ~ok \/ Stale(m, c) THEN setIsGenerating(m, c, FALSE)
  ELSE LET m1 == addPromptsToStep(m, c.obj, tgt, prompts)
       IN IF m1.err THEN setIsGenerating([m1 EXCEPT !.err = FALSE], c, FALSE)
          ELSE setIsGenerating(AutoAfterGenerate(refreshSession(m1, c), c), c, FALSE)

----------------------------------------------------------------------------
(* The state machine                                                       *)

OpSet(m) == BagToSet(m.ops)

Take(op) == [Machine EXCEPT !.ops = @ (-) SetToBag({op})]

ClosureOf(op) ==
  [obj |-> op.obj, step |-> op.step, auto |-> op.auto, test |-> op.test,
   ref |-> op.ref, fresh |-> op.fresh, chain |-> op.chain]

IsTimer(op) == op.kind \in {"timerScore", "timerNext"}

Referenced(m) == {m.view} \cup {op.obj : op \in OpSet(m)}

\* a render follows every change of the controller's React state
Rendered(m) ==
  \/ m.view # view
  \/ m.isGenerating # isGenerating
  \/ m.isScoringAll # isScoringAll
  \/ m.scoringPromptId # scoringPromptId

\* the state a handler run leaves behind; unreferenced objects are dropped
Install(m, l) ==
  /\ BagCardinality(m.ops) <= MaxOps
  /\ store' = m.store
  /\ nextId' = m.nextId
  /\ heap' = [o \in 1..MaxObj |-> IF o \in Referenced(m) THEN m.heap[o] ELSE Null]
  /\ view' = m.view
  /\ isGenerating' = m.isGenerating
  /\ isScoringAll' = m.isScoringAll
  /\ scoringPromptId' = m.scoringPromptId
  /\ ops' = m.ops
  /\ renderStep' = IF mounted /\ Rendered(m)
                   THEN m.heap[m.view].currentStep ELSE renderStep
  /\ last' = l
  /\ UNCHANGED <<created, mounted, activeSessionIdRef, fullyAutomatic, testData>>

\* a user or parent action, counted against MaxEvents
Event == events < MaxEvents /\ events' = events + 1

\* the handler run of closure c, or the parent's action, a step consisted of
Did(act, c) ==
  [act |-> act, obj |-> c.obj, sid |-> heap[c.obj].id, fresh |-> c.fresh,
   live |-> c.ref = "live", chain |-> c.chain]
Env(act) ==
  [act |-> act, obj |-> NoObj, sid |-> "none", fresh |-> TRUE, live |-> TRUE,
   chain |-> FALSE]

\* the store after createSession ran once for every id of the set ids
CreatedStore(ids) ==
  [s \in SessionIds |->
     IF s \in ids
     THEN createSession(s, IF s = "A" THEN 1 ELSE 4)
     ELSE Null]

\* sessions exist and the workspace has just been opened on session "A"
Init ==
  /\ \E ids \in {{"A"}, SessionIds} :
       /\ created = ids
       /\ store = CreatedStore(ids)
       /\ nextId = 1 + 3 * Cardinality(ids)
  /\ heap = [o \in 1..MaxObj |-> IF o = 1 THEN getSession(store, "A") ELSE Null]
  /\ mounted = TRUE
  /\ activeSessionIdRef = "A"
  /\ view = 1
  /\ renderStep = 1
  /\ isGenerating = FALSE
  /\ isScoringAll = FALSE
  /\ scoringPromptId = NoPrompt
  /\ fullyAutomatic = FALSE
  /\ testData = FALSE
  /\ ops = EmptyBag
  /\ events = 0
  /\ last = Env("mount")

\* the session list creates a session (createSession)
CreateSession(sid) ==
  /\ Event
  /\ ~mounted
  /\ sid \notin created
  /\ created' = created \cup {sid}
  /\ store' = [getAllSessions(store) EXCEPT ![sid] = createSession(sid, nextId)]
  /\ nextId' = nextId + 3
  /\ last' = Env("createSession")
  /\ UNCHANGED <<heap, mounted, activeSessionIdRef, view, renderStep, isGenerating,
                 isScoringAll, scoringPromptId, fullyAutomatic, testData, ops>>

\* the session list deletes a session (deleteSession)
DeleteSession(sid) ==
  /\ Event
  /\ ~mounted
  /\ store[sid] # Null
  /\ store' = [getAllSessions(store) EXCEPT ![sid] = Null]
  /\ last' = Env("deleteSession")
  /\ UNCHANGED <<created, heap, nextId, mounted, activeSessionIdRef, view, renderStep,
                 isGenerating, isScoringAll, scoringPromptId, fullyAutomatic,
                 testData, ops>>

\* the state of the controller after its session-change effect ran for sid
Activate(sid, keptOps, act) ==
  LET m0 == [Machine EXCEPT !.ops = keptOps]
      heap1 == [o \in 1..MaxObj |->
                  IF o \in {op.obj : op \in BagToSet(keptOps)} THEN heap[o] ELSE Null]
      m1 == [m0 EXCEPT !.heap = heap1]
      o == FreeObj(m1)
  IN /\ store[sid] # Null
     /\ heap' = [heap1 EXCEPT ![o] = getSession(store, sid)]
     /\ view' = o
     /\ renderStep' = getSession(store, sid).currentStep
     /\ activeSessionIdRef' = sid
     /\ mounted' = TRUE
     /\ isGenerating' = FALSE
     /\ isScoringAll' = FALSE
     /\ scoringPromptId' = NoPrompt
     /\ fullyAutomatic' = FALSE
     /\ ops' = keptOps
     /\ last' = Env(act)
     /\ UNCHANGED <<store, created, nextId>>

\* the bag b with every element replaced by F of it
MapBag(F(_), b) ==
  LET img == {F(e) : e \in DOMAIN b}
  IN [r \in img |-> BagCardinality([e \in {x \in DOMAIN b : F(x) = r} |-> b[e]])]

Outdated(op) == [op EXCEPT !.fresh = FALSE]

\* a cleanup that clears no timer
ClearTimeoutsNone(b) == MapBag(Outdated, b)

\* clearTimeout on every registered timer; calls in flight are left alone
ClearTimeouts(b) ==
  LET keep == {op \in DOMAIN b : ~(IsTimer(op) /\ op.ref = "live")}
  IN MapBag(Outdated, [op \in keep |-> b[op]])

\* the parent renders <OPROWorkspace session=...>: useState, useRef, effects
Mount(sid) ==
  /\ Event
  /\ ~mounted
  /\ testData' = FALSE
  /\ Activate(sid, ops, "mount")

\* the parent passes a session with another id: the session-change effect
SwitchSession(sid) ==
  /\ Event
  /\ mounted
  /\ sid # activeSessionIdRef
  /\ UNCHANGED testData
  /\ Activate(sid, ClearTimeouts(ops), "switch")

Orphan(op) == [op EXCEPT !.ref = IF @ = "live" THEN activeSessionIdRef ELSE @,
                         !.fresh = FALSE]

\* "Back to Sessions": the unmount cleanup effect
Unmount ==
  /\ Event
  /\ mounted
  /\ mounted' = FALSE
  /\ ops' = MapBag(Orphan, ClearTimeouts(ops))
  /\ view' = NoObj
  /\ heap' = [o \in 1..MaxObj |->
                IF o \in {op.obj : op \in BagToSet(ops')} THEN heap[o] ELSE Null]
  /\ last' = Env("unmount")
  /\ UNCHANGED <<store, created, nextId, activeSessionIdRef, renderStep, isGenerating,
                 isScoringAll, scoringPromptId, fullyAutomatic, testData>>

\* readTSVFile resolves: setTestData
LoadTestData ==
  /\ UNCHANGED events
  /\ mounted
  /\ ~testData
  /\ testData' = TRUE
  /\ last' = Env("loadTestData")
  /\ UNCHANGED <<store, created, heap, nextId, mounted, activeSessionIdRef, view,
                 renderStep, isGenerating, isScoringAll, scoringPromptId,
                 fullyAutomatic, ops>>

\* the Fully Automatic checkbox
ToggleAutomatic ==
  /\ Event
  /\ mounted
  /\ fullyAutomatic' = ~fullyAutomatic
  /\ renderStep' = heap[view].currentStep
  /\ last' = Env("toggle")
  /\ UNCHANGED <<store, created, heap, nextId, mounted, activeSessionIdRef, view,
                 isGenerating, isScoringAll, scoringPromptId, testData, ops>>

\* the currentStep object of the last render, as it is now
RenderedStep ==
  LET at == StepIdx(heap[view], renderStep)
  IN IF at = 0 THEN [stepNumber |-> renderStep, prompts |-> <<>>]
     ELSE heap[view].steps[at]

hasPrompts == Len(RenderedStep.prompts) > 0
allScored == hasPrompts /\ AllScored(RenderedStep)

\* the Generate button: handleGeneratePrompts up to its await
ClickGenerate ==
  /\ Event
  /\ mounted
  /\ ~hasPrompts
  /\ ~isGenerating
  /\ StepIdx(heap[view], renderStep) # 0
  /\ Install(Schedule(setIsGenerating(Machine, Closure, TRUE),
                      NewOp("generate", Closure, NoPrompt, <<>>, FALSE, 0)),
             Did("generateBegin", Closure))

\* generatePrompts returns k texts, or throws after a call used up its retries
GenerateResolve(op) ==
  /\ UNCHANGED events
  /\ op.kind = "generate"
  /\ op.step < MaxStep
  /\ \E ok \in BOOLEAN : \E prompts \in [1..K -> Texts] :
       /\ ok \/ prompts = [i \in 1..K |-> CHOOSE t \in Texts : TRUE]
       /\ Install(GenerateEnd(Take(op), ClosureOf(op), ok, prompts),
                  Did(IF ok THEN "generateEnd" ELSE "generateFail", ClosureOf(op)))

\* the Score button of a pending prompt
ClickScore(pid) ==
  /\ Event
  /\ mounted
  /\ scoringPromptId = NoPrompt
  /\ \E j \in DOMAIN RenderedStep.prompts :
       RenderedStep.prompts[j].id = pid /\ IsPending(RenderedStep.prompts[j])
  /\ Install(ScoreBegin(Machine, Closure, pid, <<>>, FALSE),
             Did("scoreBegin", Closure))

\* the Score All button: handleScoreAll up to the first await
ClickScoreAll ==
  /\ Event
  /\ mounted
  /\ hasPrompts /\ ~allScored
  /\ ~isScoringAll /\ scoringPromptId = NoPrompt
  /\ testData
  /\ LET unscoredPrompts == SelectSeq(RenderedStep.prompts, IsPending)
         ids == [i \in DOMAIN unscoredPrompts |-> unscoredPrompts[i].id]
     IN /\ ids # <<>>
        /\ Install(ScoreBegin(setIsScoringAll(Machine, Closure, TRUE), Closure,
                              Head(ids), Tail(ids), TRUE),
                   Did("scoreAllBegin", Closure))

\* scorePrompt returns an accuracy
ScoreResolve(op) ==
  /\ UNCHANGED events
  /\ op.kind = "score"
  /\ \E accuracy \in Accuracies :
       Install(ScoreEnd(Take(op), ClosureOf(op), op.pid, accuracy, op.rest, op.all),
               Did("scoreEnd", ClosureOf(op)))

\* a pacing timer of the automation fires: score the chosen prompt
TimerScoreFire(op) ==
  /\ UNCHANGED events
  /\ op.kind = "timerScore"
  /\ LET c == ClosureOf(op)
         m == Take(op)
     IN Install(IF Stale(m, c) THEN m ELSE ScoreBegin(m, c, op.pid, <<>>, FALSE),
                Did("scoreBegin", ClosureOf(op)))

\* the Next Step button
ClickNextStep ==
  /\ Event
  /\ mounted
  /\ allScored
  /\ heap[view].currentStep < MaxStep
  /\ Install(NextStepBegin(Machine, Closure), Did("nextStep", Closure))

\* a pacing timer of the automation fires: advance the step
TimerNextFire(op) ==
  /\ UNCHANGED events
  /\ op.kind = "timerNext"
  /\ heap[op.obj].currentStep < MaxStep
  /\ LET c == ClosureOf(op)
         m == Take(op)
     IN Install(IF Stale(m, c) THEN m ELSE NextStepBegin(m, c),
                Did("nextStep", ClosureOf(op)))

\* the generatePrompts call of handleNextStep returns or throws
NextGenerateResolve(op) ==
  /\ UNCHANGED events
  /\ op.kind = "nextGenerate"
  /\ op.tgt < MaxStep
  /\ \E ok \in BOOLEAN : \E prompts \in [1..K -> Texts] :
       /\ ok \/ prompts = [i \in 1..K |-> CHOOSE t \in Texts : TRUE]
       /\ Install(NextStepEnd(Take(op), ClosureOf(op), op.tgt, ok, prompts),
                  Did(IF ok THEN "generateEnd" ELSE "generateFail", ClosureOf(op)))

Next ==
  \/ \E sid \in SessionIds : CreateSession(sid)
  \/ \E sid \in SessionIds : DeleteSession(sid)
  \/ \E sid \in SessionIds : Mount(sid)
  \/ \E sid \in SessionIds : SwitchSession(sid)
  \/ Unmount
  \/ LoadTestData
  \/ ToggleAutomatic
  \/ ClickGenerate
  \/ \E pid \in 1..(nextId - 1) : ClickScore(pid)
  \/ ClickScoreAll
  \/ ClickNextStep
  \/ \E op \in BagToSet(ops) : GenerateResolve(op)
  \/ \E op \in BagToSet(ops) : NextGenerateResolve(op)
  \/ \E op \in BagToSet(ops) : ScoreResolve(op)
  \/ \E op \in BagToSet(ops) : TimerScoreFire(op)
  \/ \E op \in BagToSet(ops) : TimerNextFire(op)

Spec == Init /\ [][Next]_vars

----------------------------------------------------------------------------
(* Properties                                                              *)

Objects == 1..MaxObj

\* slot o holds the same session object before and after the step
SameObject(o) ==
  /\ heap[o] # Null
  /\ heap'[o] # Null
  /\ last'.act \notin {"mount", "switch"}

PromptSet(sess) == {Flatten(sess.steps)[i] : i \in DOMAIN Flatten(sess.steps)}

CurrentStepComplete(sess) ==
  LET at == getCurrentStep(sess)
  IN at # 0 /\ AllScored(sess.steps[at])

\* C1: a step is appended to a session object only when every prompt of the
\* step its currentStep designates is scored, and a step-advance attempted
\* while that step has a pending or scoring prompt changes neither the
\* object nor the store.
C1_AdvanceOnlyWhenComplete ==
  [][ /\ \A o \in Objects :
           (SameObject(o) /\ Len(heap'[o].steps) > Len(heap[o].steps))
             => CurrentStepComplete(heap[o])
      /\ (last'.act = "nextStep" /\ ~CurrentStepComplete(heap[last'.obj]))
           => (store' = store /\ heap'[last'.obj] \in {heap[last'.obj], Null})
    ]_vars

\* once scored, a prompt keeps its state and its score
ScoredStays(before, after) ==
  \A p \in PromptSet(before) :
    p.state = "scored" =>
      \A q \in PromptSet(after) :
        q.id = p.id => (q.state = "scored" /\ q.score = p.score)

\* C2: Scored is terminal: a prompt that is scored, in a session object or in
\* the store, has the same state and score after every step.
C2_ScoredIsTerminal ==
  [][ /\ \A o \in Objects : SameObject(o) => ScoredStays(heap[o], heap'[o])
      /\ \A sid \in SessionIds : ScoredStays(store[sid], store'[sid])
    ]_vars

\* the prompts of a step grew by nothing, or by exactly K pending prompts
\* without a score
BatchOrNothing(old, new) ==
  /\ Len(new) \in {Len(old), Len(old) + K}
  /\ \A j \in DOMAIN new :
       j > Len(old) => (new[j].state = "pending" /\ new[j].score = NoScore)

\* C3: generation is atomic: in every step, each step of a session object
\* either keeps its number of prompts or gains exactly K prompts, all of
\* them pending with no score; every stored generation step holds a whole
\* number of batches.
C3_GenerationAtomic ==
  [][ /\ \A o \in Objects :
           SameObject(o) =>
             \A i \in DOMAIN heap[o].steps :
               i \in DOMAIN heap'[o].steps
                 /\ BatchOrNothing(heap[o].steps[i].prompts, heap'[o].steps[i].prompts)
      /\ \A sid \in SessionIds :
           \A i \in DOMAIN store'[sid].steps :
             store'[sid].steps[i].stepNumber > 0
               => Len(store'[sid].steps[i].prompts) % K = 0
    ]_vars

\* a generation has just succeeded and its K pending prompts are stored
C3_Witness ==
  /\ last.act = "generateEnd"
  /\ \E i \in DOMAIN store[last.sid].steps :
       LET prompts == store[last.sid].steps[i].prompts
       IN /\ Len(prompts) = K
          /\ \A j \in DOMAIN prompts :
               prompts[j].state = "pending" /\ prompts[j].score = NoScore

WellNumbered(sess) ==
  \/ sess = Null
  \/ /\ sess.steps # <<>>
     /\ \A i, j \in DOMAIN sess.steps :
          i < j => sess.steps[i].stepNumber < sess.steps[j].stepNumber
     /\ sess.currentStep = sess.steps[Len(sess.steps)].stepNumber

\* C4: in every stored session and every session object the stepNumbers are
\* strictly increasing and currentStep is the stepNumber of the last step.
C4_CurrentStepIsLast ==
  /\ \A sid \in SessionIds : WellNumbered(store[sid])
  /\ \A o \in Objects : WellNumbered(heap[o])

\* a session was advanced: the store holds a step appended by createNextStep
C4_Witness ==
  \E sid \in SessionIds : store[sid] # Null /\ store[sid].currentStep > 1

\* C5: when a generation started for a session resolves while the workspace
\* shows another session, the stored state of the shown session and its
\* working copy stay as they were.
C5_StaleGenerationLeavesActiveSession ==
  [][ ( /\ last'.act \in {"generateEnd", "generateFail"}
        /\ last'.live
        /\ mounted
        /\ last'.sid # activeSessionIdRef )
      => ( /\ store'[activeSessionIdRef] = store[activeSessionIdRef]
           /\ view' = view
           /\ heap'[view] = heap[view] )
    ]_vars

\* a generation started for "A" returned its prompts while "B" was shown
C5_Witness ==
  /\ last.act = "generateEnd"
  /\ last.live
  /\ last.sid = "A"
  /\ mounted
  /\ activeSessionIdRef = "B"

\* a continuation of an earlier activation ran in this step
StaleContinuation ==
  /\ last'.act \in {"generateEnd", "generateFail", "scoreEnd"}
       \/ (last'.chain /\ last'.act \in {"scoreBegin", "nextStep"})
  /\ ~last'.fresh

\* some operation is outstanding after the step that was not before it
Scheduled(P(_)) ==
  \E op \in BagToSet(ops') :
    P(op) /\ CopiesIn(op, ops') > CopiesIn(op, ops)

AnyOp(op) == TRUE

\* C6: a continuation that resumes after the session was switched or closed
\* changes neither the store nor the controller state and schedules nothing.
C6_StaleContinuationDiscards ==
  [][ StaleContinuation
      => ( /\ store' = store
           /\ isGenerating' = isGenerating
           /\ isScoringAll' = isScoringAll
           /\ scoringPromptId' = scoringPromptId
           /\ view' = view
           /\ ~Scheduled(AnyOp) )
    ]_vars

\* C7: while the automation flag is off, a continuation of the mounted
\* workspace schedules no pacing timer.
C7_NoScheduleWhenFlagOff ==
  [][ ( /\ mounted
        /\ ~fullyAutomatic
        /\ last'.live
        /\ last'.act \in {"generateEnd", "scoreEnd"} )
      => ~Scheduled(IsTimer)
    ]_vars

\* automated continuations: pacing timers and the operations they started
Automated(op) == op.chain /\ op.ref = "live"

\* C8: at most one automated continuation is outstanding for the active
\* session.
C8_SingleAutomationLoop ==
  mounted =>
    BagCardinality([op \in {x \in BagToSet(ops) : Automated(x)} |-> ops[op]]) <= 1

\* every step of before is a step of after with the same number and metaPrompt
StepsKept(before, after) ==
  \A i \in DOMAIN before.steps :
    /\ i \in DOMAIN after.steps
    /\ after.steps[i].stepNumber = before.steps[i].stepNumber
    /\ after.steps[i].metaPrompt = before.steps[i].metaPrompt

\* C9: steps are append-only, in the session objects and in the store: a
\* step that exists keeps its place, its stepNumber and its metaPrompt
\* (unless the session is deleted).
C9_StepsAppendOnly ==
  [][ /\ \A o \in Objects : SameObject(o) => StepsKept(heap[o], heap'[o])
      /\ \A sid \in SessionIds :
           store'[sid] # Null => StepsKept(store[sid], store'[sid])
    ]_vars

ScoreIffScored(sess) ==
  \A p \in PromptSet(sess) : (p.score # NoScore) <=> (p.state = "scored")

\* C10: every prompt, stored or in a session object, has a score exactly
\* when its state is scored.
C10_ScoreIffScored ==
  /\ \A sid \in SessionIds : ScoreIffScored(store[sid])
  /\ \A o \in Objects : ScoreIffScored(heap[o])

\* a prompt as getAllSessions must return it: scoring became pending, every
\* other field is as persisted
LoadedAs(stored, loaded) ==
  /\ loaded.id = stored.id
  /\ loaded.text = stored.text
  /\ loaded.score = stored.score
  /\ loaded.state = (IF stored.state = "scoring" THEN "pending" ELSE stored.state)

SessionLoadedAs(stored, loaded) ==
  /\ loaded.id = stored.id
  /\ loaded.currentStep = stored.currentStep
  /\ DOMAIN loaded.steps = DOMAIN stored.steps
  /\ \A i \in DOMAIN stored.steps :
       /\ loaded.steps[i].stepNumber = stored.steps[i].stepNumber
       /\ loaded.steps[i].metaPrompt = stored.steps[i].metaPrompt
       /\ DOMAIN loaded.steps[i].prompts = DOMAIN stored.steps[i].prompts
       /\ \A j \in DOMAIN stored.steps[i].prompts :
            LoadedAs(stored.steps[i].prompts[j], loaded.steps[i].prompts[j])

NoneScoring(sess) == \A p \in PromptSet(sess) : p.state # "scoring"

\* C11: loading the sessions returns every persisted scoring prompt as
\* pending and everything else as persisted, so no loaded prompt is scoring.
C11_ReloadResetsScoring ==
  \A sid \in SessionIds :
    /\ SessionLoadedAs(store[sid], getSession(store, sid))
    /\ SessionLoadedAs(store[sid], getAllSessions(store)[sid])
    /\ NoneScoring(getSession(store, sid))

\* a scoring has begun: the prompt is persisted as scoring, and the session
\* object refreshSession loaded from the store shows it as pending
C11_Witness ==
  /\ last.act = "scoreBegin"
  /\ mounted
  /\ \E p \in PromptSet(store[activeSessionIdRef]) :
       /\ p.state = "scoring"
       /\ \E q \in PromptSet(heap[view]) : q.id = p.id /\ q.state = "pending"
  /\ heap[view] = getSession(store, activeSessionIdRef)

----------------------------------------------------------------------------
(* The Selector of createNextStep on drawn histories                       *)

\* prompts of step 1 in a drawn history
MaxHistory == 3
\* largest topX the selection is examined for
MaxTopX == 4
\* elements a shuffle reorders
MaxShuffle == 3

\* texts of a drawn history: one equal to a seed prompt's, one new
HistoryTexts == {"Let's figure it out!", "foo"}
\* scores of a drawn history (hundredths); NoScore is a prompt not yet scored
HistoryScores == {NoScore, 4000, 6000, 9500}
\* session.testSet, by the numbers of its questions
TestSet == <<1, 2, 3>>

\* the outcomes of sort(() => Math.random() - 0.5): a ranking of the places
Shuffles == Permutations(1..MaxShuffle)

Min(a, b) == IF a < b THEN a ELSE b

\* [...array].sort(() => Math.random() - 0.5) under the ranking r
Shuffled(array, r) ==
  LET m == Min(Len(array), MaxShuffle)
      Place(i) == Cardinality({j \in 1..m : r[j] <= r[i]})
  IN [p \in 1..Len(array) |->
        IF p > m THEN array[p] ELSE array[CHOOSE i \in 1..m : Place(i) = p]]

\* randomSample(array, n) under the ranking r
randomSample(array, n, r) == SubSeq(Shuffled(array, r), 1, Min(n, Len(array)))

\* a Selector that samples its candidates instead of ranking them
SelectorSampled(sess, topX, r) ==
  [candidates |-> randomSample(uniquePrompts(<<>>, allScoredPrompts(sess)), topX, r),
   examples |-> randomSample(TestSet, 3, r)]

\* createNextStep up to the rendering: the candidates and the examples
Selector(sess, topX, r) ==
  [candidates |-> topPrompts(sess, topX),
   examples |-> randomSample(TestSet, 3, r)]

Histories ==
  UNION {[1..n -> HistoryTexts \X HistoryScores] : n \in 0..MaxHistory}

\* a session as createSession builds it, with the history as step 1
HistorySession(hist) ==
  [createSession("A", 1) EXCEPT
     !.steps[2].prompts =
        [i \in 1..Len(hist) |->
           NewPrompt(3 + i, hist[i][1], hist[i][2],
                     IF hist[i][2] = NoScore THEN "pending" ELSE "scored")]]

SelInit ==
  /\ \E hist \in Histories :
       /\ store = [sid \in SessionIds |->
                     IF sid = "A" THEN HistorySession(hist) ELSE Null]
       /\ nextId = 4 + Len(hist)
  /\ created = {"A"}
  /\ heap = [o \in 1..MaxObj |-> IF o = 1 THEN getSession(store, "A") ELSE Null]
  /\ mounted = TRUE
  /\ activeSessionIdRef = "A"
  /\ view = 1
  /\ renderStep = 1
  /\ isGenerating = FALSE
  /\ isScoringAll = FALSE
  /\ scoringPromptId = NoPrompt
  /\ fullyAutomatic = FALSE
  /\ testData = TRUE
  /\ ops = EmptyBag
  /\ events = 0
  /\ last = Env("mount")

\* createNextStep(session) with the draw r of its randomSample
SelAdvance ==
  /\ UNCHANGED events
  /\ heap[view].currentStep < MaxStep
  /\ \E r \in Shuffles :
       Install(createNextStep(Machine, view),
               [act |-> "createNextStep", obj |-> view, sid |-> heap[view].id,
                fresh |-> TRUE, live |-> TRUE, chain |-> FALSE,
                selected |-> Selector(heap[view], TopX, r)])

SelNext == SelAdvance

SelectorSpec == SelInit /\ [][SelNext]_vars

Unique(sess) == uniquePrompts(<<>>, allScoredPrompts(sess))

\* the scores recorded in the history for a text
ScoresOf(sess, text) ==
  {p.score : p \in {q \in PromptSet(sess) : q.score # NoScore /\ q.text = text}}

NoTextTwice(seq) ==
  \A i, j \in DOMAIN seq : i # j => seq[i].text # seq[j].text

\* C12: the deduplicated history holds every scored text exactly once, with
\* the highest score recorded for that text, and neither the candidates of
\* any topX nor the rendered list of a new step shows a text twice.
C12_DedupKeepsMaxScore ==
  LET h == store["A"]
      U == Unique(h)
  IN /\ NoTextTwice(U)
     /\ \A p \in PromptSet(h) :
          p.score # NoScore =>
            \E i \in DOMAIN U :
              /\ U[i].text = p.text
              /\ U[i].score \in ScoresOf(h, p.text)
              /\ \A sc \in ScoresOf(h, p.text) : sc <= U[i].score
     /\ \A i \in DOMAIN U : U[i].score \in ScoresOf(h, U[i].text)
     /\ \A x \in 1..MaxTopX : NoTextTwice(topPrompts(h, x))
     /\ \A i \in DOMAIN h.steps :
          \A a, b \in DOMAIN h.steps[i].metaPrompt.blocks :
            a # b => h.steps[i].metaPrompt.blocks[a][1] # h.steps[i].metaPrompt.blocks[b][1]

\* a step was rendered from a history in which a text was scored twice, the
\* lower score first, and the text is among the candidates
C12_Witness ==
  /\ last.act = "createNextStep"
  /\ \E i, j \in DOMAIN store["A"].steps[2].prompts :
       LET p == store["A"].steps[2].prompts[i]
           q == store["A"].steps[2].prompts[j]
       IN /\ i < j /\ p.text = "foo" /\ q.text = "foo"
          /\ p.score = 4000 /\ q.score = 9500
  /\ \E a \in DOMAIN store["A"].steps[3].metaPrompt.blocks :
       store["A"].steps[3].metaPrompt.blocks[a] = <<"foo", 9500>>

InSeq(e, seq) == \E i \in DOMAIN seq : seq[i] = e

\* C13: for every topX the candidates are min(topX, n) entries of the
\* deduplicated history of n texts, none of the entries left out scores
\* higher than a kept one, they are listed by non-decreasing score, and the
\* step appended by a step-advance renders exactly the candidates of the
\* session's topX.
C13_TopXAscending ==
  LET h == store["A"]
      U == Unique(h)
  IN /\ \A x \in 1..MaxTopX :
          LET T == topPrompts(h, x)
          IN /\ Len(T) = Min(x, Len(U))
             /\ \A i \in DOMAIN T : InSeq(T[i], U)
             /\ \A i, j \in DOMAIN T : i < j => T[i].score <= T[j].score
             /\ \A k \in DOMAIN U :
                  ~InSeq(U[k], T) => \A i \in DOMAIN T : U[k].score <= T[i].score
     /\ last.act = "createNextStep" =>
          /\ h.steps[Len(h.steps)].metaPrompt.blocks = Blocks(topPrompts(h, TopX))
          /\ h.steps[Len(h.steps)].metaPrompt.blocks = Blocks(last.selected.candidates)

\* a step was rendered from four distinct scored texts with topX 2: the two
\* best ones, the lower score first
C13_Witness ==
  /\ last.act = "createNextStep"
  /\ Len(Unique(store["A"])) = 4
  /\ store["A"].steps[3].metaPrompt.blocks =
       << <<"Let's think step by step.", 9008>>, <<"foo", 9500>> >>

----------------------------------------------------------------------------
(* scorePrompt: one evaluation call per question, each with its retries    *)

\* questions of the evaluation set in a scoring run
MaxItems == 2
\* largest evaluation set the accuracy arithmetic is examined for
MaxQuestions == 10
\* attempts of callGeminiWithRetry
Retries == 3
\* the answer callGeminiWithRetry returns when it has none
NoAnswer == -1

\* gold answers of the questions
Golds == {-1, 7}
\* what one attempt of an evaluation call may do: throw, return no text,
\* return text that is not JSON, or return an answer
Outcomes ==
  {[kind |-> k, answer |-> NoAnswer] : k \in {"throw", "empty", "invalid"}}
    \cup {[kind |-> "answer", answer |-> a] : a \in {7, 8}}

\* callGeminiWithRetry, one attempt on: the call after the outcome
callGeminiWithRetry(call, outcome) ==
  IF outcome.kind = "throw"
  THEN IF call.attempt + 1 >= Retries
       THEN [call EXCEPT !.attempt = @ + 1, !.returned = TRUE,
                         !.answer = NoAnswer, !.failed = TRUE]
       ELSE [call EXCEPT !.attempt = @ + 1]
  ELSE IF outcome.kind \in {"empty", "invalid"}
       THEN [call EXCEPT !.returned = TRUE, !.answer = NoAnswer]
       ELSE [call EXCEPT !.returned = TRUE, !.answer = outcome.answer]

\* Math.floor in place of Math.round
MathFloor(num, den) == num \div den

\* Math.round of the fraction num / den (den > 0, num >= 0)
MathRound(num, den) == (2 * num + den) \div (2 * den)

\* (score / questions.length) * 100 as the fraction <<numerator, denominator>>
accuracyOf(score, length) == <<100 * score, length>>

\* Math.round(score * 100) / 100, in hundredths
RoundedScore(accuracy) == MathRound(100 * accuracy[1], accuracy[2])

\* a .then that reports progress for a correct answer only
ThenCallbackCorrectOnly(run, call) ==
  LET correct == call.answer = run.gold[call.item]
  IN [run EXCEPT !.score = IF correct THEN @ + 1 ELSE @,
                 !.progress = IF correct THEN Append(@, <<call.item, correct>>) ELSE @,
                 !.answers = [@ EXCEPT ![call.item] = call.answer],
                 !.failed = IF call.failed THEN @ \cup {call.item} ELSE @]

\* the .then of one question's call: compare, count, report progress
ThenCallback(run, call) ==
  LET correct == call.answer = run.gold[call.item]
  IN [run EXCEPT !.score = IF correct THEN @ + 1 ELSE @,
                 !.progress = Append(@, <<call.item, correct>>),
                 !.answers = [@ EXCEPT ![call.item] = call.answer],
                 !.failed = IF call.failed THEN @ \cup {call.item} ELSE @]

NewCall(i) ==
  [kind |-> "evaluate", item |-> i, attempt |-> 0, returned |-> FALSE,
   answer |-> NoAnswer, failed |-> FALSE]

ScInit ==
  /\ \E n \in 1..MaxItems : \E gold \in [1..n -> Golds] :
       /\ ops = SetToBag({NewCall(i) : i \in 1..n})
       /\ last = [act |-> "scorePrompt", gold |-> gold, score |-> 0,
                   progress |-> <<>>, answers |-> [i \in 1..n |-> NoAnswer],
                   failed |-> {}, accuracy |-> <<0, 0>>, stored |-> NoScore]
  /\ created = {"A"}
  /\ store = CreatedStore({"A"})
  /\ nextId = 4
  /\ heap = [o \in 1..MaxObj |-> IF o = 1 THEN getSession(store, "A") ELSE Null]
  /\ mounted = TRUE
  /\ activeSessionIdRef = "A"
  /\ view = 1
  /\ renderStep = 1
  /\ isGenerating = FALSE
  /\ isScoringAll = FALSE
  /\ scoringPromptId = NoPrompt
  /\ fullyAutomatic = FALSE
  /\ testData = TRUE
  /\ events = 0

ScFrame ==
  UNCHANGED <<store, created, heap, nextId, mounted, activeSessionIdRef, view,
              renderStep, isGenerating, isScoringAll, scoringPromptId,
              fullyAutomatic, testData, events>>

\* one attempt of the evaluation call of a question ends
EvaluateAttempt(op) ==
  /\ op.kind = "evaluate"
  /\ \E outcome \in Outcomes :
       LET call == callGeminiWithRetry(op, outcome)
       IN IF call.returned
          THEN /\ ops' = ops (-) SetToBag({op})
               /\ last' = [ThenCallback(last, call) EXCEPT !.act = "then"]
          ELSE /\ ops' = (ops (-) SetToBag({op})) (+) SetToBag({call})
               /\ last' = [last EXCEPT !.act = "retry"]
  /\ ScFrame

\* Promise.all resolved: scorePrompt returns, handleScorePrompt rounds
ScoreReturn ==
  /\ ops = EmptyBag
  /\ last.act # "return"
  /\ LET accuracy == accuracyOf(last.score, Len(last.gold))
     IN last' = [last EXCEPT !.act = "return", !.accuracy = accuracy,
                             !.stored = RoundedScore(accuracy)]
  /\ UNCHANGED ops
  /\ ScFrame

ScNext ==
  \/ \E op \in BagToSet(ops) : EvaluateAttempt(op)
  \/ ScoreReturn

ScoreSpec == ScInit /\ [][ScNext]_vars

\* the questions whose returned answer equals the gold answer
Matching(run) == {i \in DOMAIN run.gold : run.answers[i] = run.gold[i]}

\* h hundredths is a nearest two-decimal value of 100 * c / n
NearestHundredth(h, c, n) ==
  /\ 2 * n * h - 20000 * c <= n
  /\ 20000 * c - 2 * n * h <= n

\* C15: the score a scoring run ends with is 100 * c / n to two decimals,
\* c being the number of questions whose returned answer equals the gold
\* answer: 100.00 when all match, 0.00 when none does, 70.00 for 7 of 10,
\* and always within 0..100.
C15_AccuracyIsShareCorrect ==
  /\ \A n \in 1..MaxQuestions : \A c \in 0..n :
       LET h == RoundedScore(accuracyOf(c, n))
       IN /\ NearestHundredth(h, c, n)
          /\ h \in 0..10000
          /\ (c = n) => h = 10000
          /\ (c = 0) => h = 0
  /\ RoundedScore(accuracyOf(7, 10)) = 7000
  /\ last.act = "return" =>
       /\ last.score = Cardinality(Matching(last))
       /\ last.accuracy = <<100 * Cardinality(Matching(last)), Len(last.gold)>>
       /\ NearestHundredth(last.stored, Cardinality(Matching(last)), Len(last.gold))

\* a run over two questions returned with one answer matching: 50.00
C15_Witness ==
  /\ last.act = "return"
  /\ Len(last.gold) = 2
  /\ last.gold = <<7, 7>>
  /\ last.answers = <<7, 8>>
  /\ last.stored = 5000

\* C16: a question whose call failed every attempt is reported and counted
\* as incorrect whatever its gold answer is, and the run still returns an
\* accuracy over all its questions.
C16_FailedItemIsIncorrect ==
  /\ \A i \in last.failed :
       /\ \E k \in DOMAIN last.progress : last.progress[k] = <<i, FALSE>>
       /\ \A k \in DOMAIN last.progress : last.progress[k] # <<i, TRUE>>
  /\ last.act = "return" =>
       /\ last.accuracy[2] = Len(last.gold)
       /\ last.score = Cardinality(Matching(last) \ last.failed)

----------------------------------------------------------------------------
(* Properties of the workspace, continued                                  *)

\* the generation call that ended in this step
Resolved(op) ==
  /\ op.kind \in {"generate", "nextGenerate"}
  /\ CopiesIn(op, ops') < CopiesIn(op, ops)

TargetStep(op) == IF op.kind = "generate" THEN op.step ELSE op.tgt

\* the prompts of the step numbered n, <<>> when there is no such step
PromptsOfStep(sess, n) ==
  IF StepIdx(sess, n) = 0 THEN <<>> ELSE sess.steps[StepIdx(sess, n)].prompts

GeneratedFrom(ids) ==
  addPromptsToStep(
    [store |-> CreatedStore(ids),
     heap |-> [o \in 1..MaxObj |->
                 IF o = 1 THEN getSession(CreatedStore(ids), "A") ELSE Null],
     nextId |-> 1 + 3 * Cardinality(ids), view |-> 1,
     isGenerating |-> FALSE, isScoringAll |-> FALSE,
     scoringPromptId |-> NoPrompt, ops |-> EmptyBag, err |-> FALSE],
    1, 1, [i \in 1..K |-> "t"])

\* the workspace shows session "A" with test data loaded and K pending
\* prompts in step 1
ScoringInit ==
  /\ \E ids \in {{"A"}, SessionIds} :
       /\ created = ids
       /\ store = GeneratedFrom(ids).store
       /\ nextId = GeneratedFrom(ids).nextId
  /\ heap = [o \in 1..MaxObj |-> IF o = 1 THEN getSession(store, "A") ELSE Null]
  /\ mounted = TRUE
  /\ activeSessionIdRef = "A"
  /\ view = 1
  /\ renderStep = 1
  /\ isGenerating = FALSE
  /\ isScoringAll = FALSE
  /\ scoringPromptId = NoPrompt
  /\ fullyAutomatic = FALSE
  /\ testData = TRUE
  /\ ops = EmptyBag
  /\ events = 0
  /\ last = Env("generateEnd")

ScoringSpec == ScoringInit /\ [][Next]_vars

\* the prompt pid of a session object
PromptOf(sess, pid) ==
  sess.steps[PromptStepIdx(sess, pid)].prompts[
    PromptIdx(sess.steps[PromptStepIdx(sess, pid)], pid)]

\* the scoring call op returns accuracy and the update of its prompt throws
ScoringFails(op, accuracy) ==
  /\ op.kind = "score"
  /\ ~Stale(Take(op), ClosureOf(op))
  /\ updatePrompt(Take(op), op.obj, op.pid,
                  [state |-> "scored", score |-> accuracy]).err

\* handleScorePrompt after the scoring call op returned accuracy
AfterScoring(op, accuracy) ==
  ScoreEnd(Take(op), ClosureOf(op), op.pid, accuracy, op.rest, op.all)

\* C18: when the scoring of a prompt fails, handleScorePrompt leaves the
\* prompt pending with no score in the session object it works on.
C18_FailedScoringReverts ==
  \A op \in BagToSet(ops) : \A accuracy \in Accuracies :
    ScoringFails(op, accuracy) =>
      /\ PromptOf(AfterScoring(op, accuracy).heap[op.obj], op.pid).state = "pending"
      /\ PromptOf(AfterScoring(op, accuracy).heap[op.obj], op.pid).score = NoScore

----------------------------------------------------------------------------
(* generatePrompts: k concurrent generateSinglePrompt calls gathered by    *)
(* Promise.all, and the append of their texts to the step.  ops holds the  *)
(* calls in flight and last the run: calls[i] the outcome call i settles   *)
(* with once its attempts are over, results[i] the text it resolved to,    *)
(* order the calls in the order they settled.                              *)

MaxK == 3

GenOutcomes ==
  {[ok |-> TRUE, text |-> "a"], [ok |-> TRUE, text |-> "b"],
   [ok |-> FALSE, text |-> ""]}

\* an array filled in the order the calls settled
CompletionOrder(results, order) ==
  [j \in 1..Len(order) |-> results[order[j]]]

\* the value Promise.all resolves to: the results in the order of the promises
PromiseAll(results, order) ==
  [i \in 1..Len(results) |-> results[i]]

GenInit ==
  /\ \E k \in 1..MaxK : \E calls \in [1..k -> GenOutcomes] :
       /\ ops = SetToBag({[kind |-> "generateSingle", i |-> i] : i \in 1..k})
       /\ last = [act |-> "generatePrompts", calls |-> calls,
                   results |-> [i \in 1..k |-> ""], order |-> <<>>,
                   returned |-> <<>>]
  /\ created = {"A"}
  /\ store = CreatedStore({"A"})
  /\ nextId = 4
  /\ heap = [o \in 1..MaxObj |-> IF o = 1 THEN getSession(store, "A") ELSE Null]
  /\ mounted = TRUE
  /\ activeSessionIdRef = "A"
  /\ view = 1
  /\ renderStep = 1
  /\ isGenerating = TRUE
  /\ isScoringAll = FALSE
  /\ scoringPromptId = NoPrompt
  /\ fullyAutomatic = FALSE
  /\ testData = TRUE
  /\ events = 0

\* generateSinglePrompt of call op.i settles: resolved with its text, or
\* rejected after its last attempt, which rejects the Promise.all at once
GenSettle(op) ==
  /\ op.kind = "generateSingle"
  /\ ops' = ops (-) SetToBag({op})
  /\ last' = [last EXCEPT
                !.act = IF last.act = "rejected" \/ ~last.calls[op.i].ok
                        THEN "rejected" ELSE "settled",
                !.results[op.i] = last.calls[op.i].text,
                !.order = Append(@, op.i)]
  /\ UNCHANGED <<store, created, heap, nextId, mounted, activeSessionIdRef, view,
                 renderStep, isGenerating, isScoringAll, scoringPromptId,
                 fullyAutomatic, testData, events>>

\* every call resolved: the await of Promise.all returns the prompts
GenReturn ==
  /\ ops = EmptyBag
  /\ last.act = "settled"
  /\ last' = [last EXCEPT !.act = "returned",
                          !.returned = PromiseAll(last.results, last.order)]
  /\ UNCHANGED <<store, created, heap, nextId, mounted, activeSessionIdRef, view,
                 renderStep, isGenerating, isScoringAll, scoringPromptId,
                 fullyAutomatic, testData, events, ops>>

\* handleGeneratePrompts: addPromptsToStep(session, stepNumber, prompts)
GenAppend ==
  /\ last.act = "returned"
  /\ LET m == addPromptsToStep(Machine, view, renderStep, last.returned)
     IN /\ store' = m.store
        /\ heap' = m.heap
        /\ nextId' = m.nextId
  /\ isGenerating' = FALSE
  /\ last' = [last EXCEPT !.act = "appended"]
  /\ UNCHANGED <<created, mounted, activeSessionIdRef, view, renderStep,
                 isScoringAll, scoringPromptId, fullyAutomatic, testData, events,
                 ops>>

GenNext ==
  \/ \E op \in BagToSet(ops) : GenSettle(op)
  \/ GenReturn
  \/ GenAppend

GenSpec == GenInit /\ [][GenNext]_vars

\* the texts of a sequence of prompts
TextsOf(prompts) == [j \in DOMAIN prompts |-> prompts[j].text]

\* the candidate of every call, in the order of the calls
Candidates == [i \in DOMAIN last.calls |-> last.calls[i].text]

\* C19: whatever the order in which the k calls complete, element i of the
\* sequence generatePrompts returns is the candidate of call i, and the
\* prompts appended to the step, in the session object and in the store,
\* carry these texts in that order.
C19_ResultOrderIsCallOrder ==
  /\ last.act \in {"returned", "appended"} => last.returned = Candidates
  /\ last.act = "appended" =>
       /\ TextsOf(PromptsOfStep(heap[view], renderStep)) = Candidates
       /\ TextsOf(PromptsOfStep(store["A"], renderStep)) = Candidates

\* the last call completed first and produced another text than the first;
\* the prompts were appended
C19_Witness ==
  /\ last.act = "appended"
  /\ last.order = <<3, 1, 2>>
  /\ last.calls[1].text # last.calls[3].text

----------------------------------------------------------------------------
(* Properties of the store                                                 *)

\* C20: updateSession of any session object succeeds and leaves the object
\* as the stored entry of its id, whether or not the id was stored before.
C20_PutIsUpsert ==
  \A o \in Objects :
    heap[o] # Null =>
      /\ ~updateSession(Machine, o).err
      /\ updateSession(Machine, o).store[heap[o].id] = heap[o]

\* the session sid was created and is no longer in the store
Deleted(sid) == sid \in created /\ store[sid] = Null

\* C21: deleteSession leaves no entry for the id, and a deleted session is
\* in the store after no step: neither a call in flight nor a pacing timer
\* on a session object of the deleted session stores it again.
C21_DeletedStaysDeleted ==
  [][ \A sid \in SessionIds :
        /\ DeleteSession(sid) => getSession(store', sid) = Null
        /\ Deleted(sid) => getSession(store', sid) = Null
    ]_vars

\* a generation started on session "A" returned its prompts after "A" was
\* deleted
C21_Witness ==
  /\ last.act = "generateEnd"
  /\ last.sid = "A"
  /\ Deleted("A")

\* handleScorePrompt ran in this step with an empty testData: called by the
\* Score button, or by a pacing timer whose closure holds an empty testData
ScoredWithoutTestData ==
  /\ last'.act = "scoreBegin"
  /\ \/ ~last'.chain /\ ~testData
     \/ \E op \in BagToSet(ops) :
          /\ op.kind = "timerScore"
          /\ ~op.test
          /\ CopiesIn(op, ops') < CopiesIn(op, ops)

\* C22: handleScorePrompt called with an empty evaluation set returns before
\* anything else: no scoring call is started, no timer is scheduled, the
\* store and every session object are as before (the prompt keeps its state
\* and its score) and scoringPromptId is not set.
C22_EmptyTestDataRejected ==
  [][ ScoredWithoutTestData =>
        /\ store' = store
        /\ \A o \in Objects : SameObject(o) => heap'[o] = heap[o]
        /\ ~Scheduled(AnyOp)
        /\ scoringPromptId' = scoringPromptId
        /\ view' = view
    ]_vars

\* the Score button of a pending prompt was clicked before the test data
\* was loaded: the prompt is still pending without a score
C22_Witness ==
  /\ last.act = "scoreBegin"
  /\ ~last.chain
  /\ ~testData
  /\ mounted
  /\ \E p \in PromptSet(heap[view]) : p.state = "pending" /\ p.score = NoScore
  /\ \E p \in PromptSet(store[activeSessionIdRef]) : p.state = "pending"

\* an external call started by a workspace that was unmounted since has
\* returned in this step, and no workspace is mounted
ResolvedAfterClose ==
  /\ ~mounted
  /\ last'.act \in {"generateEnd", "scoreEnd"}
  /\ ~last'.live

\* C23: the continuation of a call that returns after the workspace was
\* closed leaves the store as it is and schedules no timer.
C23_ClosedContinuationDiscards ==
  [][ ResolvedAfterClose => (store' = store /\ ~Scheduled(IsTimer)) ]_vars

\* an external call started in an earlier activation of the session that is
\* shown again has returned in this step
ResolvedAfterSwitchBack ==
  /\ mounted
  /\ last'.act \in {"generateEnd", "scoreEnd"}
  /\ last'.live
  /\ ~last'.fresh
  /\ last'.sid = activeSessionIdRef

\* C24: a continuation that started in one activation of a session is stale
\* once the user has switched to another session and back: it changes
\* neither the store nor the session shown and schedules nothing.
C24_EpochIsPerActivation ==
  [][ ResolvedAfterSwitchBack =>
        (store' = store /\ view' = view /\ ~Scheduled(AnyOp)) ]_vars

\* the pacing timers of the bag b that the mounted workspace registered
\* (mine), or that it did not register
TimersIn(b, mine) ==
  LET timers == {op \in BagToSet(b) : IsTimer(op) /\ (op.ref = "live") = mine}
  IN BagCardinality([op \in timers |-> b[op]])

\* C25: a session switch and an unmount clear every pacing timer the
\* workspace has registered: after the step the only timers outstanding are
\* those it had not registered, so none of its timers can fire any more.
C25_TeardownClearsTimers ==
  [][ last'.act \in {"switch", "unmount"} =>
        /\ TimersIn(ops', TRUE) = 0
        /\ TimersIn(ops', FALSE) = TimersIn(ops, FALSE)
    ]_vars

\* Score All with automation on: the return of the first scoring scheduled a
\* timer for the second prompt and the loop started scoring it; the session
\* was switched before the timer fired, and only the call is left
C25_Witness ==
  /\ last.act = "switch"
  /\ BagCardinality(ops) = 1
  /\ \E op \in BagToSet(ops) :
       /\ op.kind = "score" /\ op.all /\ op.auto /\ ~op.chain
       /\ \E p \in PromptSet(store["A"]) :
            p.id = op.pid /\ p.state = "scoring"
       /\ \E p \in PromptSet(store["A"]) :
            p.id # op.pid /\ p.id > 3 /\ p.state = "scored"

\* the workspace has just been opened on session "A" and the Generate
\* button was clicked: the generation call for step 1 is in flight
GeneratingInit ==
  /\ \E ids \in {{"A"}, SessionIds} :
       /\ created = ids
       /\ store = CreatedStore(ids)
       /\ nextId = 1 + 3 * Cardinality(ids)
  /\ heap = [o \in 1..MaxObj |-> IF o = 1 THEN getSession(store, "A") ELSE Null]
  /\ mounted = TRUE
  /\ activeSessionIdRef = "A"
  /\ view = 1
  /\ renderStep = 1
  /\ isGenerating = TRUE
  /\ isScoringAll = FALSE
  /\ scoringPromptId = NoPrompt
  /\ fullyAutomatic = FALSE
  /\ testData = FALSE
  /\ ops = SetToBag({NewOp("generate", Closure, NoPrompt, <<>>, FALSE, 0)})
  /\ events = 0
  /\ last = Did("generateBegin", Closure)

GeneratingSpec == GeneratingInit /\ [][Next]_vars

\* every step after the seed step holds no prompt or exactly K prompts
ZeroOrK(sess) ==
  \A i \in DOMAIN sess.steps :
    sess.steps[i].stepNumber > 0 => Len(sess.steps[i].prompts) \in {0, K}

\* C26: no step receives the prompts of two generation calls: every step
\* after the seed step, stored or in a session object, holds 0 or exactly K
\* prompts.
C26_OneGenerationPerStep ==
  /\ \A sid \in SessionIds : ZeroOrK(store[sid])
  /\ \A o \in Objects : ZeroOrK(heap[o])

\* the scoring calls in flight for the prompt pid
ScoringCalls(pid) ==
  LET calls == {op \in BagToSet(ops) : op.kind = "score" /\ op.pid = pid}
  IN BagCardinality([op \in calls |-> ops[op]])

\* the state of the prompt pid in the session object sess
StateOf(sess, pid) ==
  IF PromptStepIdx(sess, pid) = 0 THEN "none" ELSE PromptOf(sess, pid).state

\* C27: a scoring call is started only for a prompt that is pending, in the
\* store and in the session object of the handler, and no prompt has two
\* scoring calls in flight.
C27_ScoringOnlyFromPending ==
  [][ /\ \A op \in BagToSet(ops') :
           ( /\ last'.act \in {"scoreBegin", "scoreAllBegin", "scoreEnd"}
             /\ op.kind = "score"
             /\ CopiesIn(op, ops') > CopiesIn(op, ops) ) =>
             /\ StateOf(store[heap'[op.obj].id], op.pid) = "pending"
             /\ heap[op.obj] # Null => StateOf(heap[op.obj], op.pid) = "pending"
      /\ \A pid \in 1..(nextId - 1) : ScoringCalls(pid) <= 1
    ]_vars

\* what was stored in before is still in after: every step, every prompt,
\* and every score a prompt had
NothingLost(before, after) ==
  /\ Len(after.steps) >= Len(before.steps)
  /\ \A p \in PromptSet(before) :
       \E q \in PromptSet(after) :
         q.id = p.id /\ (p.score # NoScore => q.score = p.score)

\* C28: a write of a session to the store keeps what the store held for it:
\* no step, prompt or score stored through one session object is lost by a
\* write made through another.
C28_WritesKeepStoredState ==
  [][ \A sid \in SessionIds :
        (store[sid] # Null /\ store'[sid] # Null)
          => NothingLost(store[sid], store'[sid])
    ]_vars

\* the step wrote session a to the store: a handler working on a ran, or a
\* was created or deleted
WriteFor(a) ==
  \/ last'.sid = a
  \/ /\ last'.act \in {"createSession", "deleteSession"}
     /\ store'[a] # store[a]
     /\ store[a] = Null \/ store'[a] = Null

\* C29: a store write for one session leaves the stored state of every
\* other session as it was, the states of its prompts included.
C29_WriteLeavesOtherSessions ==
  [][ \A a, b \in SessionIds :
        (a # b /\ WriteFor(a)) => store'[b] = store[b]
    ]_vars

----------------------------------------------------------------------------
(* The automation loop on its own: Fully Automatic is ticked, the test     *)
(* data is loaded, the user clicks Generate and then leaves the workspace  *)
(* alone; every external call returns a result and every pacing timer      *)
(* fires.                                                                  *)

AutoInit ==
  /\ \E ids \in {{"A"}, SessionIds} :
       /\ created = ids
       /\ store = CreatedStore(ids)
       /\ nextId = 1 + 3 * Cardinality(ids)
  /\ heap = [o \in 1..MaxObj |-> IF o = 1 THEN getSession(store, "A") ELSE Null]
  /\ mounted = TRUE
  /\ activeSessionIdRef = "A"
  /\ view = 1
  /\ renderStep = 1
  /\ isGenerating = FALSE
  /\ isScoringAll = FALSE
  /\ scoringPromptId = NoPrompt
  /\ fullyAutomatic = TRUE
  /\ testData = TRUE
  /\ ops = EmptyBag
  /\ events = 0
  /\ last = Env("toggle")

\* handleGeneratePrompts resumes with the k texts of generatePrompts: the
\* session is the active one, the prompts are added, the session is
\* refreshed and the automation block runs
LoopGenerateEnd(op) ==
  /\ UNCHANGED events
  /\ op.kind = "generate"
  /\ op.step < MaxStep
  /\ \E prompts \in [1..K -> Texts] :
     \E m \in {Take(op)} :
       /\ ~Stale(m, ClosureOf(op))
       /\ \E m1 \in {addPromptsToStep(m, op.obj, op.step, prompts)} :
            /\ ~m1.err
            /\ \E m2 \in {refreshSession(m1, ClosureOf(op))} :
               \E m3 \in {AutoAfterGenerate(m2, ClosureOf(op))} :
                 Install(setIsGenerating(m3, ClosureOf(op), FALSE),
                         Did("generateEnd", ClosureOf(op)))

\* a pacing timer calls handleScorePrompt: the prompt is marked scoring,
\* the session is refreshed and scorePrompt is awaited
LoopScoreBegin(op) ==
  /\ UNCHANGED events
  /\ op.kind = "timerScore"
  /\ op.test
  /\ \E m \in {Take(op)} :
       /\ ~Stale(m, ClosureOf(op))
       /\ \E m1 \in {setScoringPromptId(m, ClosureOf(op), op.pid)} :
          \E m2 \in {updatePrompt(m1, op.obj, op.pid, [state |-> "scoring"])} :
            /\ ~m2.err
            /\ \E m3 \in {refreshSession(m2, ClosureOf(op))} :
                 Install(Schedule(m3, NewOp("score", ClosureOf(op), op.pid,
                                            <<>>, FALSE, 0)),
                         Did("scoreBegin", ClosureOf(op)))

\* handleScorePrompt resumes with an accuracy: the prompt is marked scored,
\* the session is refreshed and the automation block runs
LoopScoreEnd(op) ==
  /\ UNCHANGED events
  /\ op.kind = "score"
  /\ ~op.all
  /\ \E accuracy \in Accuracies :
     \E m \in {Take(op)} :
       /\ ~Stale(m, ClosureOf(op))
       /\ \E m1 \in {updatePrompt(m, op.obj, op.pid,
                                  [state |-> "scored", score |-> accuracy])} :
            /\ ~m1.err
            /\ \E m2 \in {refreshSession(m1, ClosureOf(op))} :
               \E m3 \in {AutoAfterScore(m2, ClosureOf(op))} :
                 Install(setScoringPromptId(m3, ClosureOf(op), NoPrompt),
                         Did("scoreEnd", ClosureOf(op)))

\* a pacing timer calls handleNextStep: the step is appended and shown and
\* generatePrompts is awaited
LoopNextStep(op) ==
  /\ UNCHANGED events
  /\ op.kind = "timerNext"
  /\ heap[op.obj].currentStep < MaxStep
  /\ \E m \in {Take(op)} :
       /\ ~Stale(m, ClosureOf(op))
       /\ StepIdx(m.heap[op.obj], op.step) # 0
       /\ AllScored(m.heap[op.obj].steps[StepIdx(m.heap[op.obj], op.step)])
       /\ \E m1 \in {createNextStep(m, op.obj)} :
            /\ ~m1.err
            /\ ~Stale(m1, ClosureOf(op))
            /\ Live(ClosureOf(op))
            /\ \E m2 \in {[m1 EXCEPT !.view = op.obj]} :
               \E m3 \in {setIsGenerating(m2, ClosureOf(op), TRUE)} :
                 Install(Schedule(m3, NewOp("nextGenerate", ClosureOf(op), NoPrompt,
                                            <<>>, FALSE,
                                            m2.heap[op.obj].currentStep)),
                         Did("nextStep", ClosureOf(op)))

\* handleNextStep resumes with the k texts of generatePrompts
LoopNextGenerateEnd(op) ==
  /\ UNCHANGED events
  /\ op.kind = "nextGenerate"
  /\ op.tgt < MaxStep
  /\ \E prompts \in [1..K -> Texts] :
     \E m \in {Take(op)} :
       /\ ~Stale(m, ClosureOf(op))
       /\ \E m1 \in {addPromptsToStep(m, op.obj, op.tgt, prompts)} :
            /\ ~m1.err
            /\ \E m2 \in {refreshSession(m1, ClosureOf(op))} :
               \E m3 \in {AutoAfterGenerate(m2, ClosureOf(op))} :
                 Install(setIsGenerating(m3, ClosureOf(op), FALSE),
                         Did("generateEnd", ClosureOf(op)))

\* the steps the automation takes without the user
AutoStep ==
  \/ \E op \in BagToSet(ops) : LoopGenerateEnd(op)
  \/ \E op \in BagToSet(ops) : LoopScoreBegin(op)
  \/ \E op \in BagToSet(ops) : LoopScoreEnd(op)
  \/ \E op \in BagToSet(ops) : LoopNextStep(op)
  \/ \E op \in BagToSet(ops) : LoopNextGenerateEnd(op)

AutoNext ==
  \/ ClickGenerate
  \/ AutoStep

\* the pacing timer of a step-advance may fire: the state predicate that
\* LoopNextStep requires of the state it starts from
NextStepDue(op) ==
  /\ op.kind = "timerNext"
  /\ heap[op.obj].currentStep < MaxStep
  /\ ~Stale(Take(op), ClosureOf(op))
  /\ StepIdx(heap[op.obj], op.step) # 0
  /\ AllScored(heap[op.obj].steps[StepIdx(heap[op.obj], op.step)])
  /\ ~createNextStep(Take(op), op.obj).err
  /\ ~Stale(createNextStep(Take(op), op.obj), ClosureOf(op))
  /\ Live(ClosureOf(op))
  /\ BagCardinality(ops) <= MaxOps

\* calls return and timers fire: weak fairness of each step of the loop. For
\* the step-advance timer the enabling condition is written out as the state
\* predicate NextStepDue.
AutoFair ==
  /\ WF_vars(\E op \in BagToSet(ops) : LoopGenerateEnd(op))
  /\ WF_vars(\E op \in BagToSet(ops) : LoopScoreBegin(op))
  /\ WF_vars(\E op \in BagToSet(ops) : LoopScoreEnd(op))
  /\ WF_vars(\E op \in BagToSet(ops) : LoopNextGenerateEnd(op))
  /\ \/ []<>(~\E op \in BagToSet(ops) : NextStepDue(op))
     \/ []<><<\E op \in BagToSet(ops) : LoopNextStep(op)>>_vars

AutoSpec == AutoInit /\ [][AutoNext]_vars /\ AutoFair

\* the first pending prompt of the stored current step, NoPrompt if none
FirstPending ==
  LET prompts == store["A"].steps[getCurrentStep(store["A"])].prompts
      next == FirstIdx(prompts, IsPending)
  IN IF next = 0 THEN NoPrompt ELSE prompts[next].id

\* every step before the current one holds K prompts, all of them scored
StepsBelowScored(sess) ==
  \A n \in 1..(sess.currentStep - 1) :
    /\ Len(PromptsOfStep(sess, n)) = K
    /\ AllScored(sess.steps[StepIdx(sess, n)])

\* C30: once the generation is started, the automation scores every prompt
\* it generates, one call at a time and the first pending prompt of the
\* current step first, appends a step only when every prompt before it is
\* scored, and goes on until currentStep is MaxStep with every generated
\* prompt scored. Every step of the loop is a step of the handlers of Next.
C30_AutomationProgress ==
  /\ [][Next]_vars
  /\ isGenerating ~>
       (store["A"].currentStep = MaxStep /\ StepsBelowScored(store["A"]))
  /\ [][ /\ \A op \in BagToSet(ops') :
              (op.kind = "score" /\ CopiesIn(op, ops') > CopiesIn(op, ops)) =>
                (op.pid = FirstPending /\ BagCardinality(ops') = 1)
         /\ StepsBelowScored(store'["A"])
         /\ ScoredStays(store["A"], store'["A"]) ]_vars

\* the loop has scored the prompts of two steps and appended the third
C30_Witness ==
  /\ fullyAutomatic
  /\ last.act = "nextStep"
  /\ last.chain
  /\ store["A"].currentStep = MaxStep
  /\ \A n \in 1..(MaxStep - 1) :
       /\ Len(PromptsOfStep(store["A"], n)) = K
       /\ AllScored(store["A"].steps[StepIdx(store["A"], n)])

----------------------------------------------------------------------------
(* One external call with its retries: generateSinglePrompt (a generation  *)
(* call, with the extraction of the candidate from the response text) or   *)
(* callGeminiWithRetry (an evaluation call).  A text is a sequence of      *)
(* tokens: the two tags, a blank, a letter and the square brackets.  ops   *)
(* holds the request in flight or the backoff timer, last the history of   *)
(* the call.                                                               *)

\* longest response text
MaxText == 4

Chars == {"<INS>", "</INS>", " ", "x", "[", "]"}

ResponseTexts == UNION {[1..n -> Chars] : n \in 0..MaxText}

\* what one attempt of a generation call may do: throw, or return a text
GenAttemptOutcomes ==
  {[kind |-> "throw", text |-> <<>>]}
    \cup {[kind |-> "text", text |-> t] : t \in ResponseTexts}

\* String.prototype.trim
Trim(text) ==
  LET solid == {i \in DOMAIN text : text[i] # " "}
  IN IF solid = {} THEN <<>>
     ELSE SubSeq(text, CHOOSE i \in solid : \A j \in solid : i <= j,
                       CHOOSE i \in solid : \A j \in solid : i >= j)

\* text.match(/<INS>([\s\S]*?)<\/INS>/): the first <INS> that a </INS>
\* follows, up to the nearest </INS>; group the text between them
Match(text) ==
  LET opens == {i \in DOMAIN text : text[i] = "<INS>"
                                      /\ \E j \in DOMAIN text : j > i /\ text[j] = "</INS>"}
  IN IF opens = {} THEN [found |-> FALSE, group |-> <<>>]
     ELSE LET open == CHOOSE i \in opens : \A j \in opens : i <= j
              closes == {j \in DOMAIN text : j > open /\ text[j] = "</INS>"}
              close == CHOOSE j \in closes : \A k \in closes : j <= k
          IN [found |-> TRUE, group |-> SubSeq(text, open + 1, close - 1)]

\* a backoff that grows with the attempt, not with its square
BackoffLinear(attempt) == 1000 * attempt

\* setTimeout(res, 1000 * attempt * attempt): the wait in milliseconds
Backoff(attempt) == 1000 * attempt * attempt

\* generateSinglePrompt, one attempt on: the call after the outcome
generateSinglePrompt(call, outcome) ==
  IF outcome.kind = "throw" \/ outcome.text = <<>>
  THEN IF call.attempt + 1 >= Retries
       THEN [call EXCEPT !.attempt = @ + 1, !.returned = TRUE, !.failed = TRUE]
       ELSE [call EXCEPT !.attempt = @ + 1]
  ELSE LET match == Match(outcome.text)
       IN IF match.found /\ match.group # <<>>
          THEN [call EXCEPT !.returned = TRUE, !.text = Trim(match.group)]
          ELSE [call EXCEPT !.returned = TRUE, !.text = Trim(outcome.text),
                            !.fallback = TRUE]

NewGenCall ==
  [kind |-> "generateSinglePrompt", attempt |-> 0, returned |-> FALSE,
   failed |-> FALSE, text |-> <<>>, fallback |-> FALSE]

\* the attempt outcomes of a call of either kind, with the response text
\* of the attempt (empty for an evaluation call)
AttemptOutcomes(call) ==
  IF call.kind = "evaluate"
  THEN {[kind |-> o.kind, answer |-> o.answer, text |-> <<>>] : o \in Outcomes}
  ELSE {[kind |-> o.kind, answer |-> NoAnswer, text |-> o.text] :
          o \in GenAttemptOutcomes}

\* the call after one attempt with the outcome
AfterAttempt(call, outcome) ==
  IF call.kind = "evaluate"
  THEN callGeminiWithRetry(call, [kind |-> outcome.kind, answer |-> outcome.answer])
  ELSE generateSinglePrompt(call, [kind |-> outcome.kind, text |-> outcome.text])

RetryInit ==
  /\ \E call \in {NewCall(1), NewGenCall} :
       /\ ops = SetToBag({call})
       /\ last = [act |-> "request", fn |-> call.kind, requests |-> 1,
                   waits |-> <<>>, outcome |-> "none", response |-> <<>>,
                   call |-> call]
  /\ created = {"A"}
  /\ store = CreatedStore({"A"})
  /\ nextId = 4
  /\ heap = [o \in 1..MaxObj |-> IF o = 1 THEN getSession(store, "A") ELSE Null]
  /\ mounted = TRUE
  /\ activeSessionIdRef = "A"
  /\ view = 1
  /\ renderStep = 1
  /\ isGenerating = FALSE
  /\ isScoringAll = FALSE
  /\ scoringPromptId = NoPrompt
  /\ fullyAutomatic = FALSE
  /\ testData = TRUE
  /\ events = 0

\* the request of an attempt ends: the call returns or throws for good, or
\* the catch block counts the attempt and waits
AttemptEnds(op) ==
  /\ op.kind \in {"evaluate", "generateSinglePrompt"}
  /\ \E outcome \in AttemptOutcomes(op) :
       LET call == AfterAttempt(op, outcome)
       IN /\ ops' = IF call.returned THEN EmptyBag
                     ELSE SetToBag({[kind |-> "setTimeout",
                                     ms |-> Backoff(call.attempt), call |-> call]})
          /\ last' = [last EXCEPT
                         !.act = IF call.returned THEN "settled" ELSE "wait",
                         !.waits = IF call.returned THEN @
                                   ELSE Append(@, Backoff(call.attempt)),
                         !.outcome = outcome.kind,
                         !.response = outcome.text,
                         !.call = call]
  /\ ScFrame

\* the backoff timer fires: the loop makes its next attempt
BackoffEnds(op) ==
  /\ op.kind = "setTimeout"
  /\ ops' = SetToBag({op.call})
  /\ last' = [last EXCEPT !.act = "request", !.requests = @ + 1]
  /\ ScFrame

RetryNext ==
  \/ \E op \in BagToSet(ops) : AttemptEnds(op)
  \/ \E op \in BagToSet(ops) : BackoffEnds(op)

RetrySpec == RetryInit /\ [][RetryNext]_vars

\* C31: a call of either kind makes at most Retries requests, waits 1 s
\* before the second and 4 s before the third, and after the failure of
\* the last one it is settled as failed with no further wait or request.
C31_BoundedRetries ==
  /\ last.requests <= Retries
  /\ last.waits = SubSeq(<<1000, 4000>>, 1, Len(last.waits))
  /\ last.act \in {"request", "settled"} => Len(last.waits) = last.requests - 1
  /\ last.act = "wait" => Len(last.waits) = last.requests /\ last.requests < Retries
  /\ last.act = "settled" => ops = EmptyBag /\ last.call.returned
  /\ (last.requests = Retries /\ last.act # "request") => last.act = "settled"

\* a call failed three times: it waited 1 s and 4 s and is given up
C31_Witness ==
  /\ last.act = "settled"
  /\ last.call.failed
  /\ last.requests = Retries
  /\ last.waits = <<1000, 4000>>

\* the outcomes of an attempt that are transient failures
Transient == {"throw", "empty", "invalid"}

TransientFailure ==
  \/ last.outcome \in Transient
  \/ last.outcome = "text" /\ last.response = <<>>

\* C32: a call of either kind whose attempt ended in a transient failure (a
\* throw, an empty response or, for an evaluation call, a response that
\* does not parse) is given up only when that was its last attempt.
C32_TransientFailureRetried ==
  (last.act = "settled" /\ TransientFailure) => last.requests = Retries

\* C33: in a scoring run over n questions the progress callback is invoked
\* once for every question whose call has returned, with true exactly when
\* the returned answer equals the gold answer, whatever the order in which
\* the calls complete; when scorePrompt returns it has been invoked n times.
C33_ProgressOncePerItem ==
  last.act \in {"scorePrompt", "retry", "then", "return"} =>
    /\ \A k, l \in DOMAIN last.progress :
         last.progress[k][1] = last.progress[l][1] => k = l
    /\ \A k \in DOMAIN last.progress :
         LET i == last.progress[k][1]
         IN /\ i \in DOMAIN last.gold
            /\ \A op \in BagToSet(ops) : op.item # i
            /\ last.progress[k][2] = (last.answers[i] = last.gold[i])
    /\ Len(last.progress) + BagCardinality(ops) = Len(last.gold)
    /\ last.act = "return" => Len(last.progress) = Len(last.gold)

\* a run over two questions returned; the second question completed first
\* and was answered correctly, the first was not
C33_Witness ==
  /\ last.act = "return"
  /\ last.progress = << <<2, TRUE>>, <<1, FALSE>> >>

----------------------------------------------------------------------------
(* The evaluation sets: session.testSet, given to createSession and kept   *)
(* in the stored session, and the workspace's testData, read from the file *)
(* gsm_test.tsv when the workspace mounts.  A set is a sequence of         *)
(* question numbers.  last carries, besides what the step did, the two     *)
(* sets, the questions the last scorePrompt call was given and the         *)
(* examples the last createNextStep sampled.                               *)

\* largest evaluation set
MaxSet == 2

Questions == {1, 2}

EvalSets == UNION {[1..n -> Questions] : n \in 0..MaxSet}

\* the record d with the fields of data added or replaced
With(d, data) ==
  [f \in DOMAIN d \cup DOMAIN data |-> IF f \in DOMAIN data THEN data[f] ELSE d[f]]

\* the evaluation data carried from step to step
EvalData ==
  [testSet |-> last.testSet, file |-> last.file, testData |-> last.testData,
   questions |-> last.questions, examples |-> last.examples]

\* session "A" was created with testSet and generated its first step; the
\* workspace is mounted on it and its readTSVFile has not resolved yet
EvalInit ==
  /\ \E testSet \in EvalSets : \E file \in EvalSets :
       last = With(Env("generateEnd"),
                   [testSet |-> testSet, file |-> file, testData |-> <<>>,
                    questions |-> <<>>, examples |-> <<>>])
  /\ created = {"A"}
  /\ store = GeneratedFrom({"A"}).store
  /\ nextId = GeneratedFrom({"A"}).nextId
  /\ heap = [o \in 1..MaxObj |-> IF o = 1 THEN getSession(store, "A") ELSE Null]
  /\ mounted = TRUE
  /\ activeSessionIdRef = "A"
  /\ view = 1
  /\ renderStep = 1
  /\ isGenerating = FALSE
  /\ isScoringAll = FALSE
  /\ scoringPromptId = NoPrompt
  /\ fullyAutomatic = FALSE
  /\ testData = FALSE
  /\ ops = EmptyBag
  /\ events = 0

\* readTSVFile('gsm_test.tsv') resolves: setTestData(data)
EvalLoad ==
  /\ last.act = "generateEnd"
  /\ testData' = (Len(last.file) > 0)
  /\ last' = With(Env("loadTestData"), [EvalData EXCEPT !.testData = last.file])
  /\ UNCHANGED <<store, created, heap, nextId, mounted, activeSessionIdRef, view,
                 renderStep, isGenerating, isScoringAll, scoringPromptId,
                 fullyAutomatic, ops, events>>

\* the Score button of a pending prompt: handleScorePrompt up to its await
\* of scorePrompt(prompt.text, testData, ...)
EvalScore(pid) ==
  /\ UNCHANGED events
  /\ last.act # "generateEnd"
  /\ scoringPromptId = NoPrompt
  /\ \E j \in DOMAIN RenderedStep.prompts :
       RenderedStep.prompts[j].id = pid /\ IsPending(RenderedStep.prompts[j])
  /\ Install(ScoreBegin(Machine, Closure, pid, <<>>, FALSE),
             With(Did("scoreBegin", Closure),
                  [EvalData EXCEPT !.questions = IF testData THEN last.testData
                                                 ELSE @]))

\* handleScorePrompt resumes with the accuracy of its scorePrompt call
EvalScoreEnd(op) ==
  /\ UNCHANGED events
  /\ op.kind = "score"
  /\ \E accuracy \in Accuracies :
       Install(ScoreEnd(Take(op), ClosureOf(op), op.pid, accuracy, op.rest, op.all),
               With(Did("scoreEnd", ClosureOf(op)), EvalData))

\* the Next Step button: createNextStep samples its examples from
\* session.testSet
EvalNextStep ==
  /\ UNCHANGED events
  /\ allScored
  /\ heap[view].currentStep < MaxStep
  /\ \E r \in Shuffles :
       Install(NextStepBegin(Machine, Closure),
               With(Did("nextStep", Closure),
                    [EvalData EXCEPT !.examples = randomSample(last.testSet, 3, r)]))

EvalNext ==
  \/ EvalLoad
  \/ \E pid \in 1..(nextId - 1) : EvalScore(pid)
  \/ \E op \in BagToSet(ops) : EvalScoreEnd(op)
  \/ EvalNextStep

EvalSetSpec == EvalInit /\ [][EvalNext]_vars

\* C34: every scorePrompt call of the session is given the session's own
\* testSet, the set createNextStep samples its examples from, and no step
\* changes that set.
C34_ScoresOwnEvaluationSet ==
  [][ /\ (last'.act = "scoreBegin" /\ BagCardinality(ops') > BagCardinality(ops))
           => last'.questions = last.testSet
      /\ last'.act = "nextStep"
           => \A k \in DOMAIN last'.examples :
                \E i \in DOMAIN last.testSet : last'.examples[k] = last.testSet[i]
      /\ last'.testSet = last.testSet ]_vars

\* the step this step appended to the stored session sid
Appended(sid) == store'[sid].steps[Len(store'[sid].steps)]

\* C35: when a step is appended to a session, every text:/score: block of
\* its metaPrompt is the text and score of a prompt of the session that is
\* in state scored: a pending or scoring prompt contributes nothing,
\* whatever its score field holds.
C35_OnlyScoredInMetaPrompt ==
  [][ \A sid \in SessionIds :
        (store[sid] # Null /\ Len(store'[sid].steps) > Len(store[sid].steps)) =>
          \A k \in DOMAIN Appended(sid).metaPrompt.blocks :
            \E p \in PromptSet(store'[sid]) :
              /\ p.state = "scored"
              /\ Appended(sid).metaPrompt.blocks[k] = <<p.text, p.score>> ]_vars

\* the session with its seed step alone: the history the first generation
\* step is built from
SeedHistory(sess) == [sess EXCEPT !.steps = SubSeq(@, 1, 1)]

\* C36: the metaPrompt of step 1 of a session that createSession stores
\* shows what the selection rule of the later steps gives on the seed
\* prompts: at most TopX of them, the highest scores, in ascending order.
C36_InitialMetaPromptSelected ==
  [][ \A sid \in SessionIds :
        (store[sid] = Null /\ store'[sid] # Null) =>
          LET first == store'[sid].steps[StepIdx(store'[sid], 1)]
          IN /\ Len(first.metaPrompt.blocks) <= TopX
             /\ first.metaPrompt.blocks =
                  Blocks(topPrompts(SeedHistory(store'[sid]), TopX)) ]_vars

\* the spans of a text that start with <INS> and end with </INS>
Spans(text) ==
  {sp \in (DOMAIN text) \X (DOMAIN text) :
     sp[1] < sp[2] /\ text[sp[1]] = "<INS>" /\ text[sp[2]] = "</INS>"}

\* the first of them: the earliest start and, for it, the earliest end
FirstSpan(text) ==
  CHOOSE sp \in Spans(text) :
    \A other \in Spans(text) :
      sp[1] < other[1] \/ (sp[1] = other[1] /\ sp[2] <= other[2])

\* a generation call resolved with a candidate for the response in last
Extracted ==
  /\ last.act = "settled"
  /\ last.fn = "generateSinglePrompt"
  /\ ~last.call.failed

\* C37: the candidate a generation call resolves with is the content of
\* the first <INS>...</INS> span of the response text, trimmed and without
\* the tags, also when that content is empty or blank; the whole text is
\* used only when the text holds no such span.
C37_FirstSpanExtracted ==
  Extracted =>
    IF Spans(last.response) # {}
    THEN /\ last.call.text =
              Trim(SubSeq(last.response, FirstSpan(last.response)[1] + 1,
                          FirstSpan(last.response)[2] - 1))
         /\ ~last.call.fallback
    ELSE /\ last.call.text \in {last.response, Trim(last.response)}
         /\ last.call.fallback

\* the markers the instruction of a rendered meta-prompt asks the candidate
\* to be written in: "Write the text in square brackets."
Instruction(metaPrompt) ==
  IF metaPrompt.template \in {"initial", "next"}
  THEN [start |-> "[", end |-> "]"]
  ELSE [start |-> "", end |-> ""]

\* the meta-prompt of the generation request: that of the current step
RequestMetaPrompt ==
  store["A"].steps[getCurrentStep(store["A"])].metaPrompt

\* candidate texts a response may carry between the markers
CandidateTexts == {<<"x">>, <<"x", "x">>, <<"x", " ">>, <<" ", "x">>}

\* C38: a response that writes its candidate between the markers the
\* meta-prompt's instruction names, and nothing else, resolves the
\* generation call with the candidate alone, and not by the fallback for a
\* text without markers.
C38_InstructedMarkersExtracted ==
  \A cand \in CandidateTexts :
    (Extracted /\ last.response = <<Instruction(RequestMetaPrompt).start>> \o cand
                                     \o <<Instruction(RequestMetaPrompt).end>>)
      => /\ last.call.text = Trim(cand)
         /\ ~last.call.fallback

\* the store and the session objects after the run m are those of before
Untouched(m) == m.store = store /\ m.heap = heap

\* C39: a store function that fails with NotFound on a session object (an
\* unknown session, step or prompt id) leaves the store and the object as
\* they were before the call.
C39_NotFoundChangesNothing ==
  \A o \in Objects :
    heap[o] # Null =>
      /\ updateSession(Machine, o).err => Untouched(updateSession(Machine, o))
      /\ \A pid \in 1..nextId :
           updatePrompt(Machine, o, pid, [state |-> "scoring"]).err =>
             Untouched(updatePrompt(Machine, o, pid, [state |-> "scoring"]))
      /\ \A n \in 0..MaxStep :
           addPromptsToStep(Machine, o, n, <<"t">>).err =>
             Untouched(addPromptsToStep(Machine, o, n, <<"t">>))
====
